---- MODULE Spec2Model ----
(***************************************************************************)
(* Contact engagement state machine of hackTheChat (welcome flow), with    *)
(* the document store, the profile lookup task and the enrichment call it  *)
(* makes.  Texts are sequences of one-character strings so that trimming,  *)
(* lower-casing, the email pattern and phrase containment are computed.    *)
(* Documents are functions from the field names that are present to their  *)
(* values: a field that is undefined in the code is absent from the        *)
(* domain.  Fields no decision reads (name, number, timestamps) are left   *)
(* out of the documents.                                                   *)
(***************************************************************************)
EXTENDS Integers, Sequences, FiniteSets, TLC

VARIABLES contacts, enrichmentLog, pc, msg, seen, snap, handled, ev,
          lpc, lsnap, lres, lev, faults, hm, enr, vs

vars == <<contacts, enrichmentLog, pc, msg, seen, snap, handled, ev,
          lpc, lsnap, lres, lev, faults, hm, enr, vs>>

-----------------------------------------------------------------------------
(* Bounds of the model *)

\* number of inbound messages (processWelcomeFlow invocations) in a behaviour
MaxInvocations == 2

\* number of failing collaborator calls (store, transport, scheduler) in a behaviour
MaxFaults == 1

\* number of inbound messages in a behaviour where they do not overlap
MaxSequential == 4

Invocations == 1..MaxInvocations
Messages == 1..MaxSequential

-----------------------------------------------------------------------------
(* ContactStatus *)

\* NEW is a reserved word of TLA+: ContactStatus.NEW is NEW_CONTACT here
NEW_CONTACT == "new"
WELCOME_SENT == "welcome_sent"
WAITING_EMAIL == "waiting_email"
EMAIL_RECEIVED == "email_received"
LINKEDIN_FOUND == "linkedin_found"
WAITING_CALL_PERMISSION == "waiting_call_permission"
CALL_SCHEDULED == "call_scheduled"
COMPLETED == "completed"
CALL_FINISHED == "call_finished"
AUTH0_SENT == "auth0_sent"

ContactStatus ==
    {NEW_CONTACT, WELCOME_SENT, WAITING_EMAIL, EMAIL_RECEIVED, LINKEDIN_FOUND,
     WAITING_CALL_PERMISSION, CALL_SCHEDULED, COMPLETED, CALL_FINISHED, AUTH0_SENT}

-----------------------------------------------------------------------------
(* welcomeFlowConfig *)

enabled == TRUE
requestEmailImmediately == TRUE
maxEmailAttempts == 3
processGroups == FALSE
checkBlockedDomains == FALSE
blockedDomains == {}

-----------------------------------------------------------------------------
(* Characters and strings *)

UpperCase == <<"A","B","C","D","E","F","G","H","I","J","K","L","M",
               "N","O","P","Q","R","S","T","U","V","W","X","Y","Z">>
LowerCase == <<"a","b","c","d","e","f","g","h","i","j","k","l","m",
               "n","o","p","q","r","s","t","u","v","w","x","y","z">>

Range(s) == {s[k] : k \in 1..Len(s)}

Letters == Range(UpperCase) \cup Range(LowerCase)
Digits == {"0","1","2","3","4","5","6","7","8","9"}
Whitespace == {" ", "\t", "\n"}

\* String.prototype.toLowerCase on one character
LowerChar(c) ==
    IF c \in Range(UpperCase)
    THEN LowerCase[CHOOSE k \in 1..Len(UpperCase) : UpperCase[k] = c]
    ELSE c

toLowerCase(s) == [k \in 1..Len(s) |-> LowerChar(s[k])]

\* String.prototype.trim
trim(s) ==
    LET keep == {k \in 1..Len(s) : s[k] \notin Whitespace}
    IN IF keep = {} THEN <<>>
       ELSE SubSeq(s, CHOOSE k \in keep : \A m \in keep : k <= m,
                      CHOOSE k \in keep : \A m \in keep : m <= k)

\* String.prototype.includes
includes(s, phrase) ==
    \E k \in 1..(Len(s) - Len(phrase) + 1) : SubSeq(s, k, k + Len(phrase) - 1) = phrase

\* /^[a-zA-Z0-9._%+-]+@[a-zA-Z0-9.-]+\.[a-zA-Z]{2,}$/ .test(s)
LocalChars == Letters \cup Digits \cup {".", "_", "%", "+", "-"}
DomainChars == Letters \cup Digits \cup {".", "-"}

regexTest(s) ==
    \E a \in 1..Len(s), d \in 1..Len(s) :
        /\ 1 < a /\ a + 1 < d /\ d + 2 <= Len(s)
        /\ s[a] = "@" /\ s[d] = "."
        /\ \A k \in 1..(a - 1) : s[k] \in LocalChars
        /\ \A k \in (a + 1)..(d - 1) : s[k] \in DomainChars
        /\ \A k \in (d + 1)..Len(s) : s[k] \in Letters

\* email.split('@')[n] for n = 0, 1 (the whole string is piece 0 when it has no '@')
AtPositions(s) == {k \in 1..Len(s) : s[k] = "@"}
FirstAt(s) == CHOOSE k \in AtPositions(s) : \A m \in AtPositions(s) : k <= m
splitAt0(s) == IF AtPositions(s) = {} THEN s ELSE SubSeq(s, 1, FirstAt(s) - 1)
splitAt1(s) ==
    LET rest == SubSeq(s, FirstAt(s) + 1, Len(s))
    IN IF AtPositions(rest) = {} THEN rest ELSE SubSeq(rest, 1, FirstAt(rest) - 1)

validateEmail(email) ==
    IF ~regexTest(email) THEN FALSE
    ELSE IF checkBlockedDomains /\ toLowerCase(splitAt1(email)) \in blockedDomains THEN FALSE
    ELSE TRUE

-----------------------------------------------------------------------------
(* Call-permission phrases *)

positiveResponses ==
    { <<"y","e","s">>, <<"y","e","a","h">>, <<"s","u","r","e">>, <<"o","k">>,
      <<"o","k","a","y">>, <<"c","a","l","l"," ","m","e">>,
      <<"g","o"," ","a","h","e","a","d">>,
      <<"s","o","u","n","d","s"," ","g","o","o","d">>,
      <<"l","e","t","'","s"," ","d","o"," ","i","t">> }

negativeResponses ==
    { <<"n","o">>, <<"n","o","p","e">>, <<"n","o","t"," ","n","o","w">>,
      <<"m","a","y","b","e"," ","l","a","t","e","r">>, <<"p","a","s","s">>,
      <<"n","o"," ","t","h","a","n","k","s">> }

isPositive(messageText) ==
    \E phrase \in positiveResponses : includes(trim(toLowerCase(messageText)), phrase)

isNegative(messageText) ==
    \E phrase \in negativeResponses : includes(trim(toLowerCase(messageText)), phrase)

-----------------------------------------------------------------------------
(* Inbound messages *)

\* a private chat and a group chat; a jid is <<number, server>>, printed number@server
PrivateJid == <<"5491155", "s.whatsapp.net">>
GroupJid == <<"1203630", "g.us">>
JIDs == {PrivateJid, GroupJid}

\* jid.endsWith('@g.us')
isGroup(jid) == jid[2] = "g.us"

Texts ==
    { <<" ","J",".","d","@","b",".","c","o"," ">>,      \* " J.d@b.co "
      <<"a","@","@","b">>,                              \* "a@@b"
      <<"S","o","u","n","d","s"," ","G","o","o","d">>,  \* "Sounds Good"
      <<"n","o","p","e">>,                              \* "nope"
      <<"o","k"," ","n","o">> }                         \* "ok no"

-----------------------------------------------------------------------------
(* Documents and the contacts collection *)

\* null / no document
Null == <<>>

Has(doc, field) == field \in DOMAIN doc

\* the fields of doc among fields that are defined
Pick(doc, fields) == [f \in (fields \cap DOMAIN doc) |-> doc[f]]

\* set(data, { merge: true }) on a document
Merge(old, data) ==
    [f \in (DOMAIN old \cup DOMAIN data) |-> IF f \in DOMAIN data THEN data[f] ELSE old[f]]

\* the place of a status in the forward order the specification gives
Rank ==
    [s \in ContactStatus |->
        CASE s = NEW_CONTACT -> 0
          [] s = WELCOME_SENT -> 1
          [] s = WAITING_EMAIL -> 2
          [] s = EMAIL_RECEIVED -> 3
          [] s \in {LINKEDIN_FOUND, WAITING_CALL_PERMISSION} -> 4
          [] s = CALL_SCHEDULED -> 5
          [] s = CALL_FINISHED -> 6
          [] s = AUTH0_SENT -> 7
          [] s = COMPLETED -> 8]

\* variant of saveContact that leaves the document alone when the write would
\* take the status back in the forward order: property C12 must tell it from
\* the code
saveContactMonotone(coll, contactData, storeOk) ==
    IF ~(storeOk /\ Has(contactData, "jid")) THEN coll
    ELSE IF /\ contactData.jid \in DOMAIN coll
            /\ Has(coll[contactData.jid], "status")
            /\ Has(contactData, "status")
            /\ Rank[contactData.status] < Rank[coll[contactData.jid].status]
    THEN coll
    ELSE [j \in (DOMAIN coll \cup {contactData.jid}) |->
            IF j = contactData.jid
            THEN [f \in (DOMAIN contactData \cup
                         (IF j \in DOMAIN coll THEN DOMAIN coll[j] ELSE {})) |->
                     IF f \in DOMAIN contactData THEN contactData[f] ELSE coll[j][f]]
            ELSE coll[j]]

\* saveContact(contactData) returns true iff the document was written: the store
\* call must succeed and doc(contactData.jid) needs a jid that is defined
saveContactOk(contactData, storeOk) == storeOk /\ Has(contactData, "jid")

\* the contacts collection after saveContact(contactData): the document is keyed
\* by the jid and holds the fields of contactData merged into what was there
saveContact(coll, contactData, storeOk) ==
    IF ~saveContactOk(contactData, storeOk) THEN coll
    ELSE [j \in (DOMAIN coll \cup {contactData.jid}) |->
            IF j = contactData.jid
            THEN Merge(IF j \in DOMAIN coll THEN coll[j] ELSE Null, contactData)
            ELSE coll[j]]

\* getContactByJid(jid): doc.data() of the document, null when it is absent or
\* the store call fails; the document key is not part of doc.data()
getContactByJid(coll, jid, storeOk) ==
    IF storeOk /\ jid \in DOMAIN coll THEN coll[jid] ELSE Null

\* variant of the default status in which a record without a status counts as
\* COMPLETED: property C13 must tell it from the code
statusOfDefaultCompleted(contact) ==
    IF "status" \in DOMAIN contact THEN contact.status ELSE COMPLETED

\* const status = contact.status || ContactStatus.NEW
statusOf(contact) == IF Has(contact, "status") THEN contact.status ELSE NEW_CONTACT

\* the payload updateContactStatus builds from the contact it read: jid is
\* contact.id, the other fields are copied when defined.  A field that is
\* undefined is taken to be left out by the store client; a client that
\* rejects undefined values makes the write fail more often, never less.
updatePayload(contact, status) ==
    (IF Has(contact, "id") THEN [jid |-> contact.id] ELSE Null)
    @@ [status |-> status]
    @@ Pick(contact, {"email", "linkedinProfile", "callPermission", "callScheduled"})

-----------------------------------------------------------------------------
(* Values of the scalar fields of a contact, by typeof *)

JsUndefined == [type |-> "undefined"]
JsNull == [type |-> "null"]
JsString(chars) == [type |-> "string", chars |-> chars]
JsObject(keys) == [type |-> "object", keys |-> keys]
JsArray(items) == [type |-> "array", items |-> items]
JsNumber(n) == [type |-> "number", n |-> n]

\* doc.field, undefined when the field is absent
get(doc, field) == IF Has(doc, field) THEN doc[field] ELSE JsUndefined

\* what counts as true in a || b
truthy(v) ==
    CASE v.type \in {"undefined", "null"} -> FALSE
      [] v.type = "string" -> v.chars # <<>>
      [] v.type = "number" -> v.n # 0
      [] OTHER -> TRUE

\* variant of orElse in which the second value wins when there is one:
\* property C23 must tell it from the code
orElseSecondWins(a, b) == IF truthy(b) THEN b ELSE a

\* a || b
orElse(a, b) == IF truthy(a) THEN a ELSE b

EmptyString == JsString(<<>>)

-----------------------------------------------------------------------------
(* Dates: time is counted in half days *)

\* 1000 * 60 * 60 * 24 milliseconds, in units of the clock
DayUnits == 2

\* the clock when the process starts
StartOfTime == 60

\* new Date().getTime()
Now == enr.now

\* new Date(), a value without a toDate method, and the Timestamp the store
\* hands back for a date it was given
DateAt(t) == [kind |-> "Date", at |-> t]
TimestampAt(t) == [kind |-> "Timestamp", at |-> t]

\* what a document holds once written: the store keeps a Date as a Timestamp
Stored(doc) ==
    [f \in DOMAIN doc |->
        IF f \in {"lastEnrichedAt", "created"} /\ doc[f] \in [kind : {"Date"}, at : Nat]
        THEN TimestampAt(doc[f].at) ELSE doc[f]]

abs(n) == IF n < 0 THEN -n ELSE n

\* Math.ceil(diffTime / (1000 * 60 * 60 * 24))
diffDays(now, then) ==
    LET diffTime == abs(now - then)
    IN (diffTime + DayUnits - 1) \div DayUnits

-----------------------------------------------------------------------------
(* Profile lookup: linkedinService and enrichLinkedInData *)

\* what fetchLinkedIn can bring back: a profile, a not-found body, a body
\* without experiences and education, or an exception
ProviderOutcomes == {"profile", "code404", "code400", "malformed", "fetchError"}

\* an experience and an education of the profile
Experience ==
    [company |-> "Acme", title |-> "VP", starts_at |-> "2020-01",
     company_linkedin_profile_url |-> "linkedin.com/company/acme"]

Schooling ==
    [school |-> "MIT", field_of_study |-> "CS", starts_at |-> "2010-09",
     school_linkedin_profile_url |-> "linkedin.com/school/mit", grade |-> "A"]

ProfileResponse ==
    [full_name |-> "Jane Doe", headline |-> JsString(<<"VP">>),
     occupation |-> JsString(<<"VP at Acme">>), city |-> JsString(<<"Boston">>),
     country |-> JsString(<<"US">>), state |-> JsString(<<"MA">>),
     experiences |-> <<Experience>>, education |-> <<Schooling>>]

\* a profile without headline, experiences and education
BareProfileResponse ==
    [full_name |-> "Jane Doe", occupation |-> JsString(<<"VP at Acme">>),
     experiences |-> <<>>, education |-> <<>>]

\* the bodies that are profiles
Profiles == {"profile", "profileBare"}

\* what the provider answers to the endpoint and the lookup
EnrichOutcomes == ProviderOutcomes \cup {"profileBare"}

responseOf(outcome) ==
    CASE outcome = "profile" -> ProfileResponse
      [] outcome = "profileBare" -> BareProfileResponse
      [] outcome = "code404" -> [code |-> "404"]
      [] outcome = "code400" -> [code |-> "400"]
      [] outcome = "malformed" -> [detail |-> "rate limit"]

UrlPrefix == "https://linkedin.com/in/"

\* email.split('@')[0].toLowerCase().replace(/[._]/g, '-') behind the prefix
findLinkedInUrlByEmail(email) ==
    LET username == toLowerCase(splitAt0(email))
    IN <<UrlPrefix>> \o
       [k \in 1..Len(username) |-> IF username[k] \in {".", "_"} THEN "-" ELSE username[k]]

\* a string field of a history entry or of an experience; undefined, null and
\* "" are all falsy and read as ""
Field(entry, f) == IF Has(entry, f) THEN entry[f] ELSE ""

\* String(Date.now() + Math.random())
GeneratedId == "generated"

\* experiences.map(...): orgCache is never filled, so organizationId is ""
jobOf(experience) ==
    [id |-> GeneratedId, organizationId |-> "", employmentType |-> "",
     jobTitle |-> Field(experience, "title"),
     companyName |-> Field(experience, "company"),
     companyLogo |-> "",
     companyLinkedinUrl |-> Field(experience, "company_linkedin_profile_url"),
     startDate |-> Field(experience, "starts_at")]

\* education.map(...)
educationOf(edu) ==
    [id |-> GeneratedId, organizationId |-> "",
     institutionName |-> Field(edu, "school"),
     institutionLogo |-> "",
     institutionLinkedinUrl |-> Field(edu, "school_linkedin_profile_url"),
     fieldOfStudy |-> Field(edu, "field_of_study"),
     startDate |-> Field(edu, "starts_at"),
     grade |-> Field(edu, "grade")]

\* the field names the merge of a history reads
JobShape ==
    [history |-> "jobHistory", url |-> "companyLinkedinUrl",
     key |-> {"companyName", "startDate", "jobTitle"},
     optional |-> {"employmentType", "jobResponsibilities", "workEmail"},
     logo |-> "companyLogo"]

EducationShape ==
    [history |-> "educationHistory", url |-> "institutionLinkedinUrl",
     key |-> {"institutionName", "startDate", "fieldOfStudy"},
     optional |-> {"degreeOrCertificate", "grade", "educationEmail"},
     logo |-> "institutionLogo"]

\* if (!job.companyLinkedinUrl): a manual entry
isManual(entry, shape) == Field(entry, shape.url) = ""

\* the existing entries find() accepts for a fresh one: same URL, or same
\* name, start date and title (=== on a field that is undefined is false)
matchesOf(existing, fresh, shape) ==
    {k \in 1..Len(existing) :
        \/ ~isManual(existing[k], shape) /\ existing[k][shape.url] = fresh[shape.url]
        \/ \A f \in shape.key : Has(existing[k], f) /\ existing[k][f] = fresh[f]}

\* { ...jh, id: existingJob.id, employmentType: existingJob.employmentType || jh.employmentType, ... }
mergedEntry(found, fresh, shape) ==
    (IF Has(found, "id") THEN [id |-> found.id] ELSE Null)
    @@ [f \in {g \in shape.optional : Field(found, g) # "" \/ Has(fresh, g)} |->
            IF Field(found, f) # "" THEN found[f] ELSE fresh[f]]
    @@ [f \in DOMAIN fresh \ {"id"} |-> fresh[f]]

\* a merge that also keeps the existing entries no fresh entry matches
mergeHistoryKeepsUnmatched(existing, freshEntries, shape) ==
    LET unmatched(k) ==
            \A n \in 1..Len(freshEntries) : k \notin matchesOf(existing, freshEntries[n], shape)
        kept[k \in 0..Len(existing)] ==
            IF k = 0 THEN <<>>
            ELSE IF isManual(existing[k], shape) \/ unmatched(k)
            THEN Append(kept[k - 1], existing[k])
            ELSE kept[k - 1]
    IN kept[Len(existing)]
       \o [k \in 1..Len(freshEntries) |->
              LET m == matchesOf(existing, freshEntries[k], shape)
              IN IF m = {} THEN freshEntries[k]
                 ELSE mergedEntry(existing[CHOOSE i \in m : \A j \in m : i <= j],
                                  freshEntries[k], shape)]


\* updatedJobHistory / updatedEducationHistory: the manual entries first, then
\* every fresh entry, merged with the first existing entry it matches
mergeHistory(existing, freshEntries, shape) ==
    LET kept[k \in 0..Len(existing)] ==
            IF k = 0 THEN <<>>
            ELSE IF isManual(existing[k], shape) THEN Append(kept[k - 1], existing[k])
            ELSE kept[k - 1]
    IN kept[Len(existing)]
       \o [k \in 1..Len(freshEntries) |->
              LET m == matchesOf(existing, freshEntries[k], shape)
              IN IF m = {} THEN freshEntries[k]
                 ELSE mergedEntry(existing[CHOOSE i \in m : \A j \in m : i <= j],
                                  freshEntries[k], shape)]

\* the organizations collection: the step that fills orgCache is empty
\* (part_010:281-285), so the function only reads it, for the logos
NoOrganizations == <<>>
OrgId == "org1"
Registries == {NoOrganizations, [o \in {OrgId} |-> [logo |-> "logo.new"]]}

\* the organizations the logo refresh looks up for contactData: those of its
\* manual entries (the fresh entries have none)
organizationsOf(contactData) ==
    UNION {{Field(contactData[h][k], "organizationId") : k \in 1..Len(contactData[h])} :
              h \in {g \in {"jobHistory", "educationHistory"} : Has(contactData, g)}}
    \ {""}

\* the registries that differ in what the refresh reads
RegistriesFor(contactData) ==
    IF organizationsOf(contactData) = {} THEN {NoOrganizations} ELSE Registries

\* if (jh.organizationId) { ... if (orgData?.logo) jh.companyLogo = orgData.logo }
withLogo(entry, orgs, shape) ==
    IF /\ Field(entry, "organizationId") # ""
       /\ entry.organizationId \in DOMAIN orgs
       /\ Field(orgs[entry.organizationId], "logo") # ""
    THEN [f \in {shape.logo} |-> orgs[entry.organizationId].logo] @@ entry
    ELSE entry

refreshLogos(history, orgs, shape) ==
    [k \in 1..Len(history) |-> withLogo(history[k], orgs, shape)]

\* contactData once the logos are refreshed: the manual entries pushed into
\* the merged history are the objects of contactData itself, and the
\* assignment of the logo writes into them
afterLogos(contactData, orgs) ==
    [h \in {g \in {"jobHistory", "educationHistory"} : Has(contactData, g)} |->
        LET shape == IF h = "jobHistory" THEN JobShape ELSE EducationShape
        IN [k \in 1..Len(contactData[h]) |->
               IF isManual(contactData[h][k], shape)
               THEN withLogo(contactData[h][k], orgs, shape)
               ELSE contactData[h][k]]]
    @@ contactData

\* contactData?.location?.city
locationField(contactData, f) ==
    LET location == get(contactData, "location")
    IN IF truthy(location) /\ Has(location, f) THEN location[f] ELSE JsUndefined

\* location: { city: contactData?.location?.city || linkedInResponse?.city || "", ... }
locationOf(contactData, linkedInResponse) ==
    [type |-> "object", keys |-> {"city", "country", "state"}]
    @@ [f \in {"city", "country", "state"} |->
           orElse(locationField(contactData, f),
                  orElse(get(linkedInResponse, f), EmptyString))]

\* name, firstName, lastName, location and jobTitle, as both the returned
\* contact and the update payload have them
mergedScalars(contactData, linkedInResponse) ==
    [name |-> orElse(get(contactData, "name"),
                     orElse(get(linkedInResponse, "name"), EmptyString)),
     firstName |-> orElse(get(contactData, "firstName"),
                          orElse(get(linkedInResponse, "localized_first_name"), EmptyString)),
     lastName |-> orElse(get(contactData, "lastName"),
                         orElse(get(linkedInResponse, "localized_last_name"), EmptyString)),
     location |-> locationOf(contactData, linkedInResponse),
     jobTitle |-> orElse(get(contactData, "jobTitle"),
                         orElse(get(linkedInResponse, "headline"),
                                orElse(get(linkedInResponse, "occupation"), EmptyString)))]

\* company: contactData?.company || updatedJobHistory?.[0]?.companyName || ""
companyOf(contactData, updatedJobHistory) ==
    orElse(get(contactData, "company"),
           IF updatedJobHistory # <<>> /\ Field(updatedJobHistory[1], "companyName") # ""
           THEN JsString(<<updatedJobHistory[1].companyName>>)
           ELSE EmptyString)

\* variant of enrichmentRecord that always stores a snapshot, the contact as
\* it came when there is no enriched one: property C21 must tell it from the code
enrichmentRecordWithSnapshot(contactData, linkedInResponse, enrichedData) ==
    (IF Has(contactData, "id") THEN [contactId |-> contactData.id] ELSE Null)
    @@ [linkedInResponse |-> linkedInResponse,
        enrichedData |-> IF enrichedData = Null THEN Stored(contactData)
                         ELSE Stored(enrichedData),
        created |-> TimestampAt(Now)]

\* one document of linkedinEnrichmentResponses (saveLinkedInEnrichmentData);
\* removeUndefinedDeep drops an undefined contactId
enrichmentRecord(contactData, linkedInResponse, enrichedData) ==
    (IF Has(contactData, "id") THEN [contactId |-> contactData.id] ELSE Null)
    @@ [linkedInResponse |-> linkedInResponse,
        enrichedData |-> IF enrichedData = Null THEN Null ELSE Stored(enrichedData),
        created |-> TimestampAt(Now)]

\* enrichLinkedInData(contactData): contact is the value returned, log the
\* documents appended to linkedinEnrichmentResponses, update the payload of
\* contactRef.update (Null when it is not reached), enriched whether the merge
\* was reached.  doc(contactData.id) throws when the id is undefined, before
\* the histories are merged; update throws when the document is missing or
\* the store call fails, after the logos were written into the entries.
\* Every exception returns the object contactData.
enrichLinkedInData(contactData, outcome, coll, storeOk, orgs) ==
    IF outcome = "fetchError"
    THEN [contact |-> contactData, log |-> <<>>, update |-> Null, enriched |-> FALSE]
    ELSE
    LET linkedInResponse == responseOf(outcome)
        first == enrichmentRecord(contactData, linkedInResponse, Null)
        jobHistory ==
            [k \in 1..Len(linkedInResponse.experiences) |->
                jobOf(linkedInResponse.experiences[k])]
        educationHistory ==
            [k \in 1..Len(linkedInResponse.education) |->
                educationOf(linkedInResponse.education[k])]
        existingJobs ==
            IF Has(contactData, "jobHistory") THEN contactData.jobHistory ELSE <<>>
        existingEducation ==
            IF Has(contactData, "educationHistory") THEN contactData.educationHistory
            ELSE <<>>
        updatedJobHistory ==
            refreshLogos(mergeHistory(existingJobs, jobHistory, JobShape), orgs, JobShape)
        updatedEducationHistory ==
            refreshLogos(mergeHistory(existingEducation, educationHistory, EducationShape),
                         orgs, EducationShape)
        enrichedContactData ==
            mergedScalars(contactData, linkedInResponse)
            @@ [linkedinEnrichmentResponse |-> linkedInResponse,
                jobHistory |-> updatedJobHistory,
                educationHistory |-> updatedEducationHistory,
                lastEnrichedAt |-> DateAt(Now)]
            @@ contactData
        second == enrichmentRecord(contactData, linkedInResponse, enrichedContactData)
        contactUpdatePayload ==
            mergedScalars(contactData, linkedInResponse)
            @@ [company |-> companyOf(contactData, updatedJobHistory),
                linkedinEnrichmentResponse |-> linkedInResponse,
                jobHistory |-> updatedJobHistory,
                educationHistory |-> updatedEducationHistory,
                lastEnrichedAt |-> DateAt(Now)]
    IN IF outcome \in {"code404", "code400"}
       THEN [contact |-> contactData, log |-> <<first>>, update |-> Null,
             enriched |-> FALSE]
       \* experiences.forEach on a body without experiences throws
       ELSE IF outcome = "malformed"
       THEN [contact |-> contactData, log |-> <<first>>, update |-> Null,
             enriched |-> FALSE]
       ELSE IF ~Has(contactData, "id")
       THEN [contact |-> contactData, log |-> <<first>>, update |-> Null,
             enriched |-> FALSE]
       ELSE IF ~(storeOk /\ contactData.id \in DOMAIN coll)
       THEN [contact |-> afterLogos(contactData, orgs), log |-> <<first, second>>,
             update |-> Null, enriched |-> FALSE]
       ELSE [contact |-> enrichedContactData, log |-> <<first, second>>,
             update |-> contactUpdatePayload, enriched |-> TRUE]

\* searchLinkedInProfile(contact): found, profileUrl and the enrichment it ran
searchLinkedInProfile(contact, outcome, coll, storeOk, orgs) ==
    LET linkedinUrl ==
            IF Has(contact, "linkedin") THEN contact.linkedin
            ELSE IF Has(contact, "linkedinProfile") THEN contact.linkedinProfile
            ELSE IF Has(contact, "email") THEN findLinkedInUrlByEmail(contact.email)
            ELSE Null
        contactForEnrichment ==
            [linkedin |-> linkedinUrl, linkedinProfile |-> linkedinUrl] @@ contact
        e == enrichLinkedInData(contactForEnrichment, outcome, coll, storeOk, orgs)
    IN IF linkedinUrl = Null
       THEN [found |-> FALSE, profileUrl |-> Null, log |-> <<>>, update |-> Null,
             enriched |-> FALSE, contact |-> contact]
       ELSE [found |-> Has(e.contact, "linkedinEnrichmentResponse"),
             profileUrl |-> linkedinUrl, log |-> e.log, update |-> e.update,
             enriched |-> e.enriched, contact |-> e.contact]

-----------------------------------------------------------------------------
(* welcomeFlow: which step an inbound text leads to *)

\* variant of handleEmailResponse that validates the text as it came, without
\* trim(): property C2 must tell it from the code
handleEmailResponseUntrimmed(messageText) ==
    IF validateEmail(messageText) THEN "er_confirm" ELSE "er_error"

\* variant of handleEmailResponse that answers an invalid email like
\* handleWelcomeSent does, with the email request and a status update:
\* property C3 must tell it from the code
handleEmailResponseAsksAgain(messageText) ==
    IF validateEmail(trim(messageText)) THEN "er_confirm" ELSE "ws_send"

\* a handler that takes any text for an email
handleEmailResponseAcceptsAll(messageText) == "er_confirm"


\* handleEmailResponse: the branch on validateEmail(messageText.trim())
handleEmailResponse(messageText) ==
    IF validateEmail(trim(messageText)) THEN "er_confirm" ELSE "er_error"

\* handleWelcomeSent: a text that is an email is processed as one
handleWelcomeSent(messageText) ==
    IF messageText # <<>> /\ validateEmail(trim(messageText))
    THEN handleEmailResponse(messageText)
    ELSE "ws_send"

\* a handler that looks at the negative phrases first
handleCallPermissionResponseNegativeFirst(messageText) ==
    IF isNegative(messageText) THEN "cp_decl_send"
    ELSE IF isPositive(messageText) THEN "cp_sched_send"
    ELSE "cp_clarify"


\* handleCallPermissionResponse: positive is looked at before negative
handleCallPermissionResponse(messageText) ==
    IF isPositive(messageText) THEN "cp_sched_send"
    ELSE IF isNegative(messageText) THEN "cp_decl_send"
    ELSE "cp_clarify"

\* variant of the switch in which CALL_FINISHED falls into the AUTH0_SENT case:
\* property C9 must tell it from the code
DispatchCallFinishedOpen(contact, messageText) ==
    IF contact = Null THEN "new_save"
    ELSE LET status == statusOf(contact)
         IN CASE status \in {NEW_CONTACT, WELCOME_SENT} -> handleWelcomeSent(messageText)
              [] status = WAITING_EMAIL -> handleEmailResponse(messageText)
              [] status = EMAIL_RECEIVED -> "return_true"
              [] status \in {LINKEDIN_FOUND, WAITING_CALL_PERMISSION} ->
                     handleCallPermissionResponse(messageText)
              [] status \in {CALL_SCHEDULED, COMPLETED} -> "return_false"
              [] status \in {AUTH0_SENT, CALL_FINISHED} -> "upd_get"
              [] OTHER -> "return_false"

\* variant of the switch in which a COMPLETED contact starts the flow again:
\* property C10 must tell it from the code
DispatchCompletedReopens(contact, messageText) ==
    IF contact = Null THEN "new_save"
    ELSE LET status == statusOf(contact)
         IN CASE status \in {NEW_CONTACT, WELCOME_SENT, COMPLETED} ->
                     handleWelcomeSent(messageText)
              [] status = WAITING_EMAIL -> handleEmailResponse(messageText)
              [] status = EMAIL_RECEIVED -> "return_true"
              [] status \in {LINKEDIN_FOUND, WAITING_CALL_PERMISSION} ->
                     handleCallPermissionResponse(messageText)
              [] status \in {CALL_SCHEDULED, CALL_FINISHED} -> "return_false"
              [] status = AUTH0_SENT -> "upd_get"
              [] OTHER -> "return_false"

\* processWelcomeFlow after getContactByJid: the switch on the status
Dispatch(contact, messageText) ==
    IF contact = Null THEN "new_save"
    ELSE LET status == statusOf(contact)
         IN CASE status \in {NEW_CONTACT, WELCOME_SENT} -> handleWelcomeSent(messageText)
              [] status = WAITING_EMAIL -> handleEmailResponse(messageText)
              [] status = EMAIL_RECEIVED -> "return_true"
              [] status \in {LINKEDIN_FOUND, WAITING_CALL_PERMISSION} ->
                     handleCallPermissionResponse(messageText)
              [] status \in {CALL_SCHEDULED, COMPLETED, CALL_FINISHED} -> "return_false"
              [] status = AUTH0_SENT -> "upd_get"
              [] OTHER -> "return_false"

-----------------------------------------------------------------------------
(* Effects, as each invocation and each lookup task records them *)

SendEvent(type, ok) == [op |-> "send", data |-> [message |-> type], ok |-> ok]
SaveEvent(contactData, ok) == [op |-> "save", data |-> contactData, ok |-> ok]
LookupEvent(email) == [op |-> "lookup", data |-> [email |-> email], ok |-> TRUE]
ScheduleEvent(email, ok) == [op |-> "schedule", data |-> [email |-> email], ok |-> ok]

\* a collaborator call succeeds, or fails while the budget of failures lasts
Outcomes == IF faults < MaxFaults THEN {TRUE, FALSE} ELSE {TRUE}
Charge(ok) == faults' = IF ok THEN faults ELSE faults + 1

\* saveLinkedInEnrichmentData: docRef.set can fail, the catch block logs the
\* error and returns, and the caller goes on.  lost is the position of the
\* write that failed among those the enrichment made (0: none)
LostWrites(ok, records) ==
    IF ok /\ faults < MaxFaults THEN 0..Len(records) ELSE {0}

\* a log that keeps one document per enrichment: the second write replaces
\* the first
savedOverwrites(records, lost) ==
    IF records = <<>> THEN <<>> ELSE <<records[Len(records)]>>


saved(records, lost) ==
    [k \in 1..(Len(records) - (IF lost = 0 THEN 0 ELSE 1)) |->
        IF lost = 0 \/ k < lost THEN records[k] ELSE records[k + 1]]

ChargeWrites(ok, lost) ==
    faults' = faults + (IF ok THEN 0 ELSE 1) + (IF lost = 0 THEN 0 ELSE 1)

\* the documents the store can hold when the process starts: written by earlier
\* runs of the flow (no id field: saveContact stores the jid) or by another
\* client of the collection (an id field), with or without the response of an
\* earlier enrichment
SeedEmail == <<"j","@","b",".","c","o">>
WithEmail ==
    {EMAIL_RECEIVED, LINKEDIN_FOUND, WAITING_CALL_PERMISSION, CALL_SCHEDULED,
     COMPLETED, CALL_FINISHED, AUTH0_SENT}
SeedDocs ==
    { [jid |-> PrivateJid]
      @@ (IF status = "nostatus" THEN Null ELSE [status |-> status])
      @@ (IF status \in WithEmail THEN [email |-> SeedEmail] ELSE Null)
      @@ (IF hasId THEN [id |-> PrivateJid] ELSE Null)
      @@ (IF hasResponse THEN [linkedinEnrichmentResponse |-> ProfileResponse] ELSE Null)
      : status \in ContactStatus \cup {"nostatus"}, hasId \in BOOLEAN,
        hasResponse \in BOOLEAN }

\* no request to the enrichment endpoint is being served
NoRequest ==
    [pc |-> "idle", now |-> StartOfTime, entry |-> "", body |-> Null, hit |-> Null,
     result |-> Null, status |-> "", queries |-> 0, fetches |-> 0, runs |-> 0,
     first |-> Null, input |-> Null, enriched |-> FALSE]

NoTarget == [status |-> "", handled |-> ""]
NoResult == [found |-> FALSE, profileUrl |-> Null, enriched |-> FALSE]

\* the documents that carry no response of an earlier enrichment
FreshDocs == {d \in SeedDocs : ~Has(d, "linkedinEnrichmentResponse")}

\* the vector store and the searches, before anything ran
NoVectors ==
    [store |-> Null, vectorizedContacts |-> Null, last |-> Null, run |-> Null,
     clock |-> 0]

\* everything but the contacts collection and the vector store
InitOthers(invocations, failed, logs) ==
    /\ enrichmentLog \in logs
    /\ pc = [i \in invocations |-> "idle"]
    /\ msg = [i \in invocations |-> Null]
    /\ seen = [i \in invocations |-> "unread"]
    /\ snap = [i \in invocations |-> [contact |-> Null, target |-> NoTarget]]
    /\ handled = [i \in invocations |-> "pending"]
    /\ ev = [i \in invocations |-> <<>>]
    /\ lpc = [i \in invocations |-> "idle"]
    /\ lsnap = [i \in invocations |-> Null]
    /\ lres = [i \in invocations |-> NoResult]
    /\ lev = [i \in invocations |-> <<>>]
    /\ faults = failed
    /\ hm = [i \in invocations |-> "idle"]
    /\ enr = NoRequest

InitWith(invocations, failed, docs, logs) ==
    /\ contacts \in {Null} \cup {[j \in {PrivateJid} |-> d] : d \in docs}
    /\ InitOthers(invocations, failed, logs)
    /\ vs = NoVectors

\* messages may overlap, and up to MaxFaults collaborator calls fail
Init == InitWith(Invocations, 0, SeedDocs, {<<>>})

\* messages arrive one after the other, no collaborator call fails, and the
\* contact has not been enriched before
InitSequential == InitWith(Messages, MaxFaults, FreshDocs, {<<>>})

-----------------------------------------------------------------------------
(* processWelcomeFlow, one action per step between two awaits *)

Return(i, value) ==
    /\ pc' = [pc EXCEPT ![i] = "done"]
    /\ handled' = [handled EXCEPT ![i] = value]
    /\ UNCHANGED <<hm, enr, vs>>

Goto(i, label) ==
    /\ pc' = [pc EXCEPT ![i] = label]
    /\ UNCHANGED <<handled, hm, enr, vs>>

Emit(i, events) == ev' = [ev EXCEPT ![i] = @ \o events]

\* updateContactStatus(jid, status) is entered; handledAfter is what the
\* invocation returns once it is over
CallUpdate(i, status, handledAfter) ==
    /\ Goto(i, "upd_get")
    /\ snap' = [snap EXCEPT ![i].target = [status |-> status, handled |-> handledAfter]]

\* variant of Send without the try/catch of processWelcomeFlow: the exception
\* of sock.sendMessage reaches the caller; property C15 must tell it from Send
SendUncaught(i, type, next) ==
    \E ok \in Outcomes :
        /\ Charge(ok)
        /\ Emit(i, <<SendEvent(type, ok)>>)
        /\ IF ok THEN Goto(i, next) ELSE Return(i, "threw")
        /\ UNCHANGED <<contacts, enrichmentLog, msg, seen, snap, lpc, lsnap, lres, lev>>

\* sock.sendMessage of a generated message: on success the flow goes on, an
\* exception is caught by processWelcomeFlow, which returns false
Send(i, type, next) ==
    \E ok \in Outcomes :
        /\ Charge(ok)
        /\ Emit(i, <<SendEvent(type, ok)>>)
        /\ IF ok THEN Goto(i, next) ELSE Return(i, "false")
        /\ UNCHANGED <<contacts, enrichmentLog, msg, seen, snap, lpc, lsnap, lres, lev>>

\* a message arrives and processWelcomeFlow runs up to getContactByJid
Receive(i) ==
    /\ pc[i] = "idle"
    /\ \A j \in DOMAIN pc : j < i => pc[j] # "idle"
    /\ \E jid \in JIDs, text \in Texts :
        /\ msg' = [msg EXCEPT ![i] = [jid |-> jid, text |-> text]]
        /\ IF ~enabled THEN Return(i, "false")
           ELSE IF isGroup(jid) /\ ~processGroups THEN Return(i, "false")
           ELSE Goto(i, "get")
    /\ UNCHANGED <<contacts, enrichmentLog, seen, snap, ev, lpc, lsnap, lres, lev, faults>>

\* const contact = await getContactByJid(jid), then the switch
GetContact(i) ==
    /\ pc[i] = "get"
    /\ \E ok \in Outcomes :
        LET contact == getContactByJid(contacts, msg[i].jid, ok)
            next == Dispatch(contact, msg[i].text)
        IN /\ Charge(ok)
           /\ seen' = [seen EXCEPT ![i] =
                         IF ~ok THEN "readfailed"
                         ELSE IF contact = Null THEN "norecord"
                         ELSE IF Has(contact, "status") THEN contact.status
                         ELSE "nostatus"]
           /\ CASE next = "return_true" -> Return(i, "true") /\ UNCHANGED snap
                [] next = "return_false" -> Return(i, "false") /\ UNCHANGED snap
                [] next = "upd_get" -> CallUpdate(i, COMPLETED, "false")
                [] OTHER -> Goto(i, next) /\ UNCHANGED snap
    /\ UNCHANGED <<contacts, enrichmentLog, msg, ev, lpc, lsnap, lres, lev>>

\* variant of NewSave that creates the record only when there is none and
\* otherwise ends the invocation without a welcome: property C11 must tell it
\* from the code
NewSaveIfAbsent(i) ==
    /\ pc[i] = "new_save"
    /\ IF msg[i].jid \in DOMAIN contacts
       THEN /\ Return(i, "true")
            /\ UNCHANGED <<contacts, ev, faults>>
       ELSE /\ \E ok \in Outcomes :
                LET contactData == [jid |-> msg[i].jid, status |-> WELCOME_SENT]
                IN /\ Charge(ok)
                   /\ contacts' = saveContact(contacts, contactData, ok)
                   /\ Emit(i, <<SaveEvent(contactData, saveContactOk(contactData, ok))>>)
            /\ Goto(i, "new_send")
    /\ UNCHANGED <<enrichmentLog, msg, seen, snap, lpc, lsnap, lres, lev>>

\* handleNewContact: saveContact with status WELCOME_SENT
NewSave(i) ==
    /\ pc[i] = "new_save"
    /\ \E ok \in Outcomes :
        LET contactData == [jid |-> msg[i].jid, status |-> WELCOME_SENT]
        IN /\ Charge(ok)
           /\ contacts' = saveContact(contacts, contactData, ok)
           /\ Emit(i, <<SaveEvent(contactData, saveContactOk(contactData, ok))>>)
    /\ Goto(i, "new_send")
    /\ UNCHANGED <<enrichmentLog, msg, seen, snap, lpc, lsnap, lres, lev>>

\* handleNewContact: the welcome message, then the status update
NewSend(i) ==
    /\ pc[i] = "new_send"
    /\ \E ok \in Outcomes :
        /\ Charge(ok)
        /\ Emit(i, <<SendEvent("welcome", ok)>>)
        /\ IF ~ok THEN Return(i, "false") /\ UNCHANGED snap
           ELSE IF requestEmailImmediately THEN CallUpdate(i, WAITING_EMAIL, "true")
           ELSE Return(i, "true") /\ UNCHANGED snap
    /\ UNCHANGED <<contacts, enrichmentLog, msg, seen, lpc, lsnap, lres, lev>>

\* handleWelcomeSent, the text is no email: the email request, then the update
WsSend(i) ==
    /\ pc[i] = "ws_send"
    /\ \E ok \in Outcomes :
        /\ Charge(ok)
        /\ Emit(i, <<SendEvent("emailRequest", ok)>>)
        /\ IF ~ok THEN Return(i, "false") /\ UNCHANGED snap
           ELSE CallUpdate(i, WAITING_EMAIL, "true")
    /\ UNCHANGED <<contacts, enrichmentLog, msg, seen, lpc, lsnap, lres, lev>>

\* handleEmailResponse, valid email: the confirmation
ErConfirm(i) ==
    /\ pc[i] = "er_confirm"
    /\ Send(i, "emailConfirmation", "er_save")

\* variant of ErSave that awaits searchAndHandleLinkedIn: the invocation has
\* not returned when the task starts.  Property C7 must tell it from the code
ErSaveAwaits(i) ==
    /\ pc[i] = "er_save"
    /\ \E ok \in Outcomes :
        LET emailCandidate == trim(msg[i].text)
            contactData == [jid |-> msg[i].jid, email |-> emailCandidate,
                            status |-> EMAIL_RECEIVED]
        IN /\ Charge(ok)
           /\ contacts' = saveContact(contacts, contactData, ok)
           /\ Emit(i, <<SaveEvent(contactData, saveContactOk(contactData, ok)),
                        LookupEvent(emailCandidate)>>)
    /\ lpc' = [lpc EXCEPT ![i] = "l_get"]
    /\ Goto(i, "er_await")
    /\ UNCHANGED <<enrichmentLog, msg, seen, snap, lsnap, lres, lev>>

\* handleEmailResponse, valid email: saveContact with the email, then
\* searchAndHandleLinkedIn is called and not awaited
ErSave(i) ==
    /\ pc[i] = "er_save"
    /\ \E ok \in Outcomes :
        LET emailCandidate == trim(msg[i].text)
            contactData == [jid |-> msg[i].jid, email |-> emailCandidate,
                            status |-> EMAIL_RECEIVED]
        IN /\ Charge(ok)
           /\ contacts' = saveContact(contacts, contactData, ok)
           /\ Emit(i, <<SaveEvent(contactData, saveContactOk(contactData, ok)),
                        LookupEvent(emailCandidate)>>)
    /\ lpc' = [lpc EXCEPT ![i] = "l_get"]
    /\ Return(i, "true")
    /\ UNCHANGED <<enrichmentLog, msg, seen, snap, lsnap, lres, lev>>

\* handleEmailResponse, invalid email: the error prompt
ErError(i) ==
    /\ pc[i] = "er_error"
    /\ \E ok \in Outcomes :
        /\ Charge(ok)
        /\ Emit(i, <<SendEvent("emailError", ok)>>)
        /\ Return(i, IF ok THEN "true" ELSE "false")
    /\ UNCHANGED <<contacts, enrichmentLog, msg, seen, snap, lpc, lsnap, lres, lev>>


\* handleCallPermissionResponse, positive: the scheduling message
CpSchedSend(i) ==
    /\ pc[i] = "cp_sched_send"
    /\ Send(i, "callScheduling", "cp_sched_save")

\* handleCallPermissionResponse, positive: callPermission and CALL_SCHEDULED
CpSchedSave(i) ==
    /\ pc[i] = "cp_sched_save"
    /\ \E ok \in Outcomes :
        LET contactData == [jid |-> msg[i].jid, callPermission |-> TRUE,
                            status |-> CALL_SCHEDULED]
        IN /\ Charge(ok)
           /\ contacts' = saveContact(contacts, contactData, ok)
           /\ Emit(i, <<SaveEvent(contactData, saveContactOk(contactData, ok))>>)
    /\ Goto(i, "cp_get")
    /\ UNCHANGED <<enrichmentLog, msg, seen, snap, lpc, lsnap, lres, lev>>

\* handleCallPermissionResponse, positive: the contact is read again for its email
CpGet(i) ==
    /\ pc[i] = "cp_get"
    /\ \E ok \in Outcomes :
        LET contact == getContactByJid(contacts, msg[i].jid, ok)
        IN /\ Charge(ok)
           /\ IF Has(contact, "email")
              THEN /\ Goto(i, "cp_call")
                   /\ snap' = [snap EXCEPT ![i].contact = contact]
              ELSE /\ Goto(i, "upd_get")
                   /\ snap' = [snap EXCEPT ![i] =
                                 [contact |-> contact,
                                  target |-> [status |-> COMPLETED, handled |-> "true"]]]
    /\ UNCHANGED <<contacts, enrichmentLog, msg, seen, ev, lpc, lsnap, lres, lev>>

\* what scheduleCall can do: report success, report a failure in its result,
\* or throw
CallResults == {"success", "failure", "exception"}

\* handleCallPermissionResponse, positive: scheduleCall, then COMPLETED whatever
\* the result says; an exception is caught by processWelcomeFlow
CpCall(i) ==
    /\ pc[i] = "cp_call"
    /\ \E callResult \in (IF faults < MaxFaults THEN CallResults ELSE {"success"}) :
        /\ Charge(callResult = "success")
        /\ Emit(i, <<ScheduleEvent(snap[i].contact.email, callResult = "success")>>)
        /\ IF callResult # "exception" THEN CallUpdate(i, COMPLETED, "true")
           ELSE Return(i, "false") /\ UNCHANGED snap
    /\ UNCHANGED <<contacts, enrichmentLog, msg, seen, lpc, lsnap, lres, lev>>

\* handleCallPermissionResponse, negative: the decline acknowledgment
CpDeclSend(i) ==
    /\ pc[i] = "cp_decl_send"
    /\ Send(i, "callDeclined", "cp_decl_save")

\* handleCallPermissionResponse, negative: callPermission false and COMPLETED
CpDeclSave(i) ==
    /\ pc[i] = "cp_decl_save"
    /\ \E ok \in Outcomes :
        LET contactData == [jid |-> msg[i].jid, callPermission |-> FALSE,
                            status |-> COMPLETED]
        IN /\ Charge(ok)
           /\ contacts' = saveContact(contacts, contactData, ok)
           /\ Emit(i, <<SaveEvent(contactData, saveContactOk(contactData, ok))>>)
    /\ Return(i, "true")
    /\ UNCHANGED <<enrichmentLog, msg, seen, snap, lpc, lsnap, lres, lev>>

\* handleCallPermissionResponse, neither: the clarification
CpClarify(i) ==
    /\ pc[i] = "cp_clarify"
    /\ \E ok \in Outcomes :
        /\ Charge(ok)
        /\ Emit(i, <<SendEvent("clarification", ok)>>)
        /\ Return(i, IF ok THEN "true" ELSE "false")
    /\ UNCHANGED <<contacts, enrichmentLog, msg, seen, snap, lpc, lsnap, lres, lev>>

\* updateContactStatus: const contact = await getContactByJid(jid)
UpdGet(i) ==
    /\ pc[i] = "upd_get"
    /\ \E ok \in Outcomes :
        LET contact == getContactByJid(contacts, msg[i].jid, ok)
        IN /\ Charge(ok)
           /\ snap' = [snap EXCEPT ![i].contact = contact]
           /\ IF contact # Null THEN Goto(i, "upd_save")
              ELSE Return(i, snap[i].target.handled)
    /\ UNCHANGED <<contacts, enrichmentLog, msg, seen, ev, lpc, lsnap, lres, lev>>

\* updateContactStatus: saveContact of the payload built from the contact read;
\* saveContact reports a failure by returning false, nothing is thrown
UpdSave(i) ==
    /\ pc[i] = "upd_save"
    /\ LET contactData == updatePayload(snap[i].contact, snap[i].target.status)
       IN \E ok \in (IF Has(contactData, "jid") THEN Outcomes ELSE {TRUE}) :
            /\ Charge(ok)
            /\ contacts' = saveContact(contacts, contactData, ok)
            /\ Emit(i, <<SaveEvent(contactData, saveContactOk(contactData, ok))>>)
    /\ Return(i, snap[i].target.handled)
    /\ UNCHANGED <<enrichmentLog, msg, seen, snap, lpc, lsnap, lres, lev>>


-----------------------------------------------------------------------------
(* searchAndHandleLinkedIn, the task handleEmailResponse starts *)

LGoto(i, label) ==
    /\ lpc' = [lpc EXCEPT ![i] = label]
    /\ UNCHANGED <<hm, enr, vs>>

LEmit(i, events) == lev' = [lev EXCEPT ![i] = @ \o events]

\* the email the task was given
lookupEmail(i) == trim(msg[i].text)

\* const existingContact = await getContactByJid(jid); return when there is none
LGet(i) ==
    /\ lpc[i] = "l_get"
    /\ \E ok \in Outcomes :
        LET existingContact == getContactByJid(contacts, msg[i].jid, ok)
        IN /\ Charge(ok)
           /\ lsnap' = [lsnap EXCEPT ![i] = existingContact]
           /\ LGoto(i, IF existingContact = Null THEN "done" ELSE "l_search")
    /\ UNCHANGED <<contacts, enrichmentLog, pc, msg, seen, snap, handled, ev, lres, lev>>

\* const searchResult = await searchLinkedInProfile(existingContact), with the
\* writes of the enrichment it runs
LSearch(i) ==
    /\ lpc[i] = "l_search"
    /\ \E outcome \in ProviderOutcomes :
       \E ok \in (IF outcome = "profile" /\ Has(lsnap[i], "id") THEN Outcomes ELSE {TRUE}) :
        LET r == searchLinkedInProfile(lsnap[i], outcome, contacts, ok, NoOrganizations)
        IN \E lost \in LostWrites(ok, r.log) :
           /\ ChargeWrites(ok, lost)
           /\ enrichmentLog' = enrichmentLog \o saved(r.log, lost)
           /\ contacts' = IF r.update = Null THEN contacts
                          ELSE [contacts EXCEPT ![lsnap[i].id] = Merge(@, Stored(r.update))]
           /\ lres' = [lres EXCEPT ![i] = [found |-> r.found, profileUrl |-> r.profileUrl,
                                           enriched |-> r.enriched]]
           /\ LGoto(i, IF r.found THEN "l_found_send" ELSE "l_nf_send")
    /\ UNCHANGED <<pc, msg, seen, snap, handled, ev, lsnap, lev>>

\* found: the linkedinFound message; an exception goes to the catch block
LFoundSend(i) ==
    /\ lpc[i] = "l_found_send"
    /\ \E ok \in Outcomes :
        /\ Charge(ok)
        /\ LEmit(i, <<SendEvent("linkedinFound", ok)>>)
        /\ LGoto(i, IF ok THEN "l_found_save" ELSE "l_upd_get")
    /\ UNCHANGED <<contacts, enrichmentLog, pc, msg, seen, snap, handled, ev, lsnap, lres>>

\* found: saveContact with WAITING_CALL_PERMISSION under jid existingContact.id
LFoundSave(i) ==
    /\ lpc[i] = "l_found_save"
    /\ LET contactData ==
               (IF Has(lsnap[i], "id") THEN [jid |-> lsnap[i].id] ELSE Null)
               @@ [email |-> lookupEmail(i), linkedinProfile |-> lres[i].profileUrl,
                   status |-> WAITING_CALL_PERMISSION]
       IN \E ok \in (IF Has(contactData, "jid") THEN Outcomes ELSE {TRUE}) :
            /\ Charge(ok)
            /\ contacts' = saveContact(contacts, contactData, ok)
            /\ LEmit(i, <<SaveEvent(contactData, saveContactOk(contactData, ok))>>)
    /\ LGoto(i, "done")
    /\ UNCHANGED <<enrichmentLog, pc, msg, seen, snap, handled, ev, lsnap, lres>>

\* not found: the linkedinNotFound message, then updateContactStatus(COMPLETED);
\* an exception goes to the catch block, which calls updateContactStatus(COMPLETED)
LNotFoundSend(i) ==
    /\ lpc[i] = "l_nf_send"
    /\ \E ok \in Outcomes :
        /\ Charge(ok)
        /\ LEmit(i, <<SendEvent("linkedinNotFound", ok)>>)
        /\ LGoto(i, "l_upd_get")
    /\ UNCHANGED <<contacts, enrichmentLog, pc, msg, seen, snap, handled, ev, lsnap, lres>>

\* updateContactStatus(jid, COMPLETED) of the task: the read
LUpdGet(i) ==
    /\ lpc[i] = "l_upd_get"
    /\ \E ok \in Outcomes :
        LET contact == getContactByJid(contacts, msg[i].jid, ok)
        IN /\ Charge(ok)
           /\ lsnap' = [lsnap EXCEPT ![i] = contact]
           /\ LGoto(i, IF contact = Null THEN "done" ELSE "l_upd_save")
    /\ UNCHANGED <<contacts, enrichmentLog, pc, msg, seen, snap, handled, ev, lres, lev>>

\* updateContactStatus(jid, COMPLETED) of the task: the write
LUpdSave(i) ==
    /\ lpc[i] = "l_upd_save"
    /\ LET contactData == updatePayload(lsnap[i], COMPLETED)
       IN \E ok \in (IF Has(contactData, "jid") THEN Outcomes ELSE {TRUE}) :
            /\ Charge(ok)
            /\ contacts' = saveContact(contacts, contactData, ok)
            /\ LEmit(i, <<SaveEvent(contactData, saveContactOk(contactData, ok))>>)
    /\ LGoto(i, "done")
    /\ UNCHANGED <<enrichmentLog, pc, msg, seen, snap, handled, ev, lsnap, lres>>

-----------------------------------------------------------------------------
(* handleMessage, after processWelcomeFlow has returned *)

\* config.bot.aiEnabled is process.env.AI_ENABLED === 'true', fixed when the
\* process starts: the deployment modelled runs with the AI responder on
aiEnabled == TRUE

\* processWelcomeFlow returned false for a private chat and handleMessage has
\* not yet gone through its general processing
FallsThrough(i) ==
    /\ pc[i] = "done"
    /\ handled[i] = "false"
    /\ ~isGroup(msg[i].jid)
    /\ hm[i] \in {"idle", "respond"}

\* the message was not processed by the welcome flow: saveMessage, then
\* saveContact with the jid, name, number and lastMessageAt of the sender
HmSave(i) ==
    /\ FallsThrough(i)
    /\ hm[i] = "idle"
    /\ \E ok \in Outcomes :
        /\ Charge(ok)
        /\ contacts' = saveContact(contacts, [jid |-> msg[i].jid], ok)
    /\ hm' = [hm EXCEPT ![i] = "respond"]
    /\ UNCHANGED <<enrichmentLog, pc, msg, seen, snap, handled, ev, lpc, lsnap, lres,
                   lev, enr, vs>>

\* if (config.bot.aiEnabled): the text goes to the general AI responder, whose
\* reply (or apology) is sent; otherwise the message is only logged
HmRespond(i) ==
    /\ FallsThrough(i)
    /\ hm[i] = "respond"
    /\ hm' = [hm EXCEPT ![i] = IF aiEnabled THEN "ai" ELSE "silent"]
    /\ UNCHANGED <<contacts, enrichmentLog, pc, msg, seen, snap, handled, ev, lpc,
                   lsnap, lres, lev, faults, enr, vs>>

-----------------------------------------------------------------------------

\* no invocation, no lookup task and no general processing is under way
Quiescent ==
    \A j \in DOMAIN pc :
        /\ pc[j] \in {"idle", "done"}
        /\ lpc[j] \in {"idle", "done"}
        /\ ~FallsThrough(j)

Next == \E i \in Invocations :
    \/ Receive(i)
    \/ GetContact(i)
    \/ NewSave(i)
    \/ NewSend(i)
    \/ WsSend(i)
    \/ ErConfirm(i)
    \/ ErSave(i)
    \/ ErError(i)
    \/ CpSchedSend(i)
    \/ CpSchedSave(i)
    \/ CpGet(i)
    \/ CpCall(i)
    \/ CpDeclSend(i)
    \/ CpDeclSave(i)
    \/ CpClarify(i)
    \/ UpdGet(i)
    \/ UpdSave(i)
    \/ LGet(i)
    \/ LSearch(i)
    \/ LFoundSend(i)
    \/ LFoundSave(i)
    \/ LNotFoundSend(i)
    \/ LUpdGet(i)
    \/ LUpdSave(i)
    \/ HmSave(i)
    \/ HmRespond(i)

\* a message is received only when the work on the earlier ones is over
ReceiveNext(i) == Quiescent /\ Receive(i)

NextSequential == \E i \in Messages :
    \/ ReceiveNext(i)
    \/ GetContact(i)
    \/ NewSave(i)
    \/ NewSend(i)
    \/ WsSend(i)
    \/ ErConfirm(i)
    \/ ErSave(i)
    \/ ErError(i)
    \/ CpSchedSend(i)
    \/ CpSchedSave(i)
    \/ CpGet(i)
    \/ CpCall(i)
    \/ CpDeclSend(i)
    \/ CpDeclSave(i)
    \/ CpClarify(i)
    \/ UpdGet(i)
    \/ UpdSave(i)
    \/ LGet(i)
    \/ LSearch(i)
    \/ LFoundSend(i)
    \/ LFoundSave(i)
    \/ LNotFoundSend(i)
    \/ LUpdGet(i)
    \/ LUpdSave(i)
    \/ HmSave(i)
    \/ HmRespond(i)

Spec == Init /\ [][Next]_vars

SpecSequential == InitSequential /\ [][NextSequential]_vars

-----------------------------------------------------------------------------
(* POST /api/contacts/enrich, and the two ways into enrichLinkedInData *)

\* runs of the enrichment on one contact, the second on the first one's output
MaxRuns == 2

\* if (diffDays < 30)
FreshDays == 30

\* how old a lastEnrichedAt or a cached record is when a request comes, and
\* how long a caller waits before it runs the enrichment again (half days)
Ages == {58, 59, 60}
Waits == {58, 59, 60}

CurrentValues ==
    {JsNull, JsString(<<>>), JsString(<<" ">>), JsString(<<"B", "o">>),
     JsObject({}), JsObject({"first"}), JsArray(<<>>), JsNumber(0)}

CachedName == JsString(<<"A", "n", "n">>)

ProfileUrl == findLinkedInUrlByEmail(SeedEmail)

\* history entries a contact has before the enrichment: entered by hand
\* (without a professional-network URL), with or without an organization, one
\* of them with the company, start and title of the profile's experience; and
\* entries of an earlier enrichment, of the same company or of another
ManualJob ==
    [id |-> "j1", organizationId |-> OrgId, jobTitle |-> "Engineer",
     companyName |-> "Initech", companyLogo |-> "logo.old", startDate |-> "2015-03"]

ManualJobNoOrg ==
    [id |-> "j2", jobTitle |-> "Founder", companyName |-> "Solo"]

ManualJobSameKey ==
    [id |-> "j3", jobTitle |-> "VP", companyName |-> "Acme", startDate |-> "2020-01",
     workEmail |-> "jane@acme.test"]

EnrichedJob ==
    [id |-> "j4", jobTitle |-> "Director", companyName |-> "Acme",
     companyLinkedinUrl |-> "linkedin.com/company/acme", employmentType |-> "full"]

OtherEnrichedJob ==
    [id |-> "j5", jobTitle |-> "Analyst", companyName |-> "Globex",
     companyLinkedinUrl |-> "linkedin.com/company/globex"]

\* an entry of an earlier enrichment with the company, start and title of the
\* profile's experience, under the URL the company had then
RenamedJob ==
    [id |-> "j6", jobTitle |-> "VP", companyName |-> "Acme", startDate |-> "2020-01",
     companyLinkedinUrl |-> "linkedin.com/company/acme-old", workEmail |-> "vp@acme.test"]

JobHistories ==
    {<<ManualJob>>, <<ManualJobNoOrg, EnrichedJob>>, <<ManualJobSameKey>>,
     <<OtherEnrichedJob, ManualJobNoOrg>>, <<RenamedJob, EnrichedJob>>}

ManualEducation ==
    [id |-> "e1", organizationId |-> OrgId, institutionName |-> "Night School",
     institutionLogo |-> "", fieldOfStudy |-> "Law"]

EnrichedEducation ==
    [id |-> "e2", institutionName |-> "MIT",
     institutionLinkedinUrl |-> "linkedin.com/school/mit", grade |-> "B"]

EducationHistories == {<<ManualEducation>>, <<EnrichedEducation>>}

\* the scalar fields a contact has before the enrichment: all of them, or
\* some of them empty
FilledScalars ==
    [name |-> JsString(<<"B", "o">>), firstName |-> JsString(<<"B">>),
     lastName |-> JsString(<<"o">>), jobTitle |-> JsString(<<"Engineer">>),
     company |-> JsString(<<"Initech">>),
     location |-> [type |-> "object", keys |-> {"city", "country"},
                   city |-> JsString(<<"Austin">>), country |-> EmptyString]]

PartScalars ==
    [name |-> JsString(<<"B", "o">>), jobTitle |-> EmptyString, company |-> JsNull,
     location |-> JsObject({})]

\* the documents of contacts that have a profile URL: they vary in the
\* scalar fields and the histories
ProfiledDocs ==
    { [jid |-> PrivateJid, id |-> PrivateJid, linkedin |-> ProfileUrl]
      @@ scalars
      @@ (IF jobs = <<>> THEN Null ELSE [jobHistory |-> jobs])
      @@ (IF schools = <<>> THEN Null ELSE [educationHistory |-> schools])
      : scalars \in {Null, FilledScalars, PartScalars},
        jobs \in {<<>>} \cup JobHistories,
        schools \in {<<>>} \cup EducationHistories }

\* the bodies a caller makes for a contact the store has no profile URL of:
\* they vary in the id, the profile URL, the name and lastEnrichedAt
EnrichBodies(now) ==
    { (IF hasId THEN [id |-> PrivateJid] ELSE Null)
      @@ (IF hasLinkedin THEN [linkedin |-> ProfileUrl] ELSE Null)
      @@ (IF name = JsUndefined THEN Null ELSE [name |-> name])
      @@ (IF stamp = JsUndefined THEN Null ELSE [lastEnrichedAt |-> stamp])
      : hasId \in BOOLEAN, hasLinkedin \in BOOLEAN,
        name \in {JsUndefined} \cup CurrentValues,
        stamp \in {JsUndefined, JsNull}
                  \cup {TimestampAt(now - a) : a \in Ages}
                  \cup {DateAt(now)} }

\* if (lastEnrichedAt): null and undefined are falsy
stampOf(contactData) ==
    IF Has(contactData, "lastEnrichedAt") /\ contactData.lastEnrichedAt # JsNull
    THEN contactData.lastEnrichedAt
    ELSE Null

\* lastEnrichedAt?.toDate() throws on a value that has no such method
toDateThrows(contactData) ==
    stampOf(contactData) # Null /\ stampOf(contactData).kind # "Timestamp"

\* let needsEnrichment = true; if (lastEnrichedAt) { ... if (diffDays < 30) ... }
needsEnrichment(contactData, now) ==
    IF stampOf(contactData) = Null THEN TRUE
    ELSE ~(diffDays(now, stampOf(contactData).at) < FreshDays)

\* the fields of a body that carry a typed value
TypedFields ==
    {"name", "firstName", "lastName", "jobTitle", "company", "location", "lastEnrichedAt"}

\* currentVal === undefined || currentVal === null || isEmptyString, for the
\* fields of the body that carry a typed value; the others hold a non-empty
\* string, a Timestamp or a response
isEmptyCurrent(contactData, key) ==
    IF ~Has(contactData, key) THEN TRUE
    ELSE IF key \notin TypedFields THEN FALSE
    ELSE LET currentVal == contactData[key]
         IN IF ~Has(currentVal, "type") THEN FALSE
            ELSE \/ currentVal.type = "null"
                 \/ currentVal.type = "string" /\ trim(currentVal.chars) = <<>>
                 \/ currentVal.type = "object" /\ currentVal.keys = {}

\* variant of the merge in which the cached value always wins: property C20
\* must tell it from the code
mergeCachedOverwrites(contactData, enrichedData, now) ==
    [lastEnrichedAt |-> DateAt(now)] @@ enrichedData @@ contactData

\* const enrichedContact = { ...contactData }; every key of the cached
\* enrichedData is copied when the current value is empty; lastEnrichedAt is
\* then set to new Date()
mergeCached(contactData, enrichedData, now) ==
    [lastEnrichedAt |-> DateAt(now)]
    @@ [key \in {k \in DOMAIN enrichedData : isEmptyCurrent(contactData, k)} |->
            enrichedData[key]]
    @@ contactData

\* the documents of linkedinEnrichmentResponses the query matches:
\* where("enrichedData.linkedin", "==", contactData.linkedin)
cacheMatches(log, contactData) ==
    {k \in 1..Len(log) :
        /\ log[k].enrichedData # Null
        /\ Has(log[k].enrichedData, "linkedin")
        /\ log[k].enrichedData.linkedin = contactData.linkedin}

\* orderBy("created", "desc").limit(1)
newestMatches(log, contactData) ==
    {k \in cacheMatches(log, contactData) :
        \A m \in cacheMatches(log, contactData) : log[m].created.at <= log[k].created.at}

\* diffDays < 30 && existingData.linkedInResponse && existingData.enrichedData
cacheHit(existingData, now) ==
    /\ diffDays(now, existingData.created.at) < FreshDays
    /\ Has(existingData, "linkedInResponse")
    /\ existingData.enrichedData # Null

\* a document of linkedinEnrichmentResponses written by an earlier enrichment
\* of the same profile for another contact, with or without the raw response
CachedRecord(age, hasRaw) ==
    (IF hasRaw THEN [linkedInResponse |-> ProfileResponse] ELSE Null)
    @@ [contactId |-> GroupJid,
        enrichedData |-> [id |-> GroupJid, linkedin |-> ProfileUrl, name |-> CachedName,
                          linkedinEnrichmentResponse |-> ProfileResponse,
                          lastEnrichedAt |-> TimestampAt(StartOfTime - age)],
        created |-> TimestampAt(StartOfTime - age)]

\* the process serves requests of the endpoint only; the contact has a
\* document or not, the cache holds one record or none
InitEnrich ==
    InitWith({}, 0, {[jid |-> PrivateJid, id |-> PrivateJid]},
             {<<>>} \cup {<<CachedRecord(age, hasRaw)>> : age \in Ages, hasRaw \in BOOLEAN})

\* the welcome flow does not run
NoWelcome == UNCHANGED <<pc, msg, seen, snap, handled, ev, lpc, lsnap, lres, lev, hm, vs>>

\* a caller starts a run: the first on a contact of its choice, the next, some
\* time later, on what the first returned (the object itself, or the document
\* as the store holds it)
CanArrive ==
    /\ enr.pc \in {"idle", "done"}
    /\ enr.runs < MaxRuns
    /\ enr.runs = 0 \/ enr.first # Null

WaitsNow == IF enr.runs = 0 THEN {0} ELSE Waits

\* the contacts the store holds a profile URL of
Profiled == {j \in DOMAIN contacts : Has(contacts[j], "linkedin")}

\* the first run is on a contact as the store holds it, when it holds its
\* profile URL, and on a body of the caller's making otherwise
BodiesNow ==
    IF enr.runs > 0 THEN {enr.first, Stored(enr.first)}
    ELSE IF Profiled # {} THEN {contacts[j] : j \in Profiled}
    ELSE EnrichBodies(enr.now)

Arrive(entry, wait, body) ==
    [enr EXCEPT !.now = @ + wait, !.entry = entry, !.body = body,
                !.runs = @ + 1, !.hit = Null, !.result = Null,
                !.status = "", !.queries = 0, !.fetches = 0,
                !.input = Null, !.enriched = FALSE]

\* the run is over: result is what was returned, status the HTTP status of the
\* response ("none" when the handler returns without sending one)
Finish(r, result, status) ==
    [r EXCEPT !.pc = "done", !.result = result, !.status = status,
              !.first = IF r.runs = 1 /\ result # Null THEN result ELSE r.first]

\* the handler up to the cache query: the checks of the body and the freshness
\* test; an exception (toDate) is answered with 500
afterChecks(r) ==
    IF ~Has(r.body, "linkedin") THEN Finish(r, Null, "400")
    ELSE IF toDateThrows(r.body) THEN Finish(r, Null, "500")
    ELSE IF needsEnrichment(r.body, r.now) THEN [r EXCEPT !.pc = "query"]
    ELSE Finish(r, r.body, "200")

EnrichReceive ==
    /\ CanArrive
    /\ \E wait \in WaitsNow, body \in BodiesNow :
        enr' = afterChecks(Arrive("endpoint", wait, body))
    /\ UNCHANGED <<contacts, enrichmentLog, faults>>
    /\ NoWelcome

\* await db.collection("linkedinEnrichmentResponses")...get(), then the merge
\* of a cache hit up to the update of the contact document
EnrichQuery ==
    /\ enr.pc = "query"
    /\ \E ok \in Outcomes :
        /\ Charge(ok)
        /\ IF ~ok THEN enr' = Finish([enr EXCEPT !.queries = @ + 1], Null, "500")
           ELSE IF newestMatches(enrichmentLog, enr.body) = {}
           THEN enr' = [enr EXCEPT !.queries = @ + 1, !.pc = "enrich"]
           ELSE \E k \in newestMatches(enrichmentLog, enr.body) :
                   enr' = IF cacheHit(enrichmentLog[k], enr.now)
                          THEN [enr EXCEPT !.queries = @ + 1, !.pc = "cache_update",
                                           !.hit = enrichmentLog[k]]
                          ELSE [enr EXCEPT !.queries = @ + 1, !.pc = "enrich"]
    /\ UNCHANGED <<contacts, enrichmentLog>>
    /\ NoWelcome

\* cache hit: doc(contactData.id).update(sanitizedRest), return enrichedContact.
\* doc(undefined) throws, update throws when there is no such document
EnrichCacheUpdate ==
    /\ enr.pc = "cache_update"
    /\ LET enrichedContact == mergeCached(enr.body, enr.hit.enrichedData, enr.now)
           rest == [f \in DOMAIN enrichedContact \ {"id"} |-> enrichedContact[f]]
       IN \E ok \in (IF Has(enr.body, "id") /\ enr.body.id \in DOMAIN contacts
                     THEN Outcomes ELSE {TRUE}) :
            /\ Charge(ok)
            /\ IF ok /\ Has(enr.body, "id") /\ enr.body.id \in DOMAIN contacts
               THEN /\ contacts' = [contacts EXCEPT ![enr.body.id] = Merge(@, Stored(rest))]
                    /\ enr' = Finish(enr, enrichedContact, "none")
               ELSE /\ UNCHANGED contacts
                    /\ enr' = Finish(enr, Null, "500")
    /\ UNCHANGED enrichmentLog
    /\ NoWelcome

\* what enrichLinkedInData(input) leaves behind: the documents it logs and
\* the update of the contact document
Enriched(r, input, e, fetched, lost) ==
    /\ enrichmentLog' = enrichmentLog \o saved(e.log, lost)
    /\ contacts' = IF e.update = Null THEN contacts
                   ELSE [contacts EXCEPT ![input.id] = Merge(@, Stored(e.update))]
    /\ enr' = Finish([r EXCEPT !.fetches = @ + fetched, !.input = input,
                               !.enriched = e.enriched],
                     e.contact, "none")

\* no cache hit: const enrichedContact = await enrichLinkedInData(contactData);
\* return enrichedContact
EnrichRun ==
    /\ enr.pc = "enrich"
    /\ \E outcome \in EnrichOutcomes, orgs \in RegistriesFor(enr.body) :
       \E ok \in (IF outcome \in Profiles /\ Has(enr.body, "id") THEN Outcomes ELSE {TRUE}) :
           LET e == enrichLinkedInData(enr.body, outcome, contacts, ok, orgs)
           IN \E lost \in LostWrites(ok, e.log) :
                  /\ ChargeWrites(ok, lost)
                  /\ Enriched(enr, enr.body, e, 1, lost)
    /\ NoWelcome

\* the state machine's way in: searchLinkedInProfile builds the contact for
\* the enrichment and calls enrichLinkedInData, whatever lastEnrichedAt says
lookupRun(r) == [r EXCEPT !.pc = "lookup"]

LookupReceive ==
    /\ CanArrive
    /\ \E wait \in WaitsNow, body \in BodiesNow :
        enr' = lookupRun(Arrive("lookup", wait, body))
    /\ UNCHANGED <<contacts, enrichmentLog, faults>>
    /\ NoWelcome

LookupRun ==
    /\ enr.pc = "lookup"
    /\ \E outcome \in EnrichOutcomes, orgs \in RegistriesFor(enr.body) :
       \E ok \in (IF outcome \in Profiles /\ Has(enr.body, "id") THEN Outcomes ELSE {TRUE}) :
           LET s == searchLinkedInProfile(enr.body, outcome, contacts, ok, orgs)
               contactForEnrichment ==
                   IF s.profileUrl = Null THEN enr.body
                   ELSE [linkedin |-> s.profileUrl, linkedinProfile |-> s.profileUrl]
                        @@ enr.body
           IN \E lost \in LostWrites(ok, s.log) :
                  /\ ChargeWrites(ok, lost)
                  /\ Enriched(enr, contactForEnrichment, s,
                              IF s.profileUrl = Null THEN 0 ELSE 1, lost)
    /\ NoWelcome

NextEnrich ==
    \/ EnrichReceive
    \/ EnrichQuery
    \/ EnrichCacheUpdate
    \/ EnrichRun
    \/ LookupReceive
    \/ LookupRun

SpecEnrich == InitEnrich /\ [][NextEnrich]_vars

\* the same process, serving a contact the store holds the profile URL of;
\* nothing is cached
InitMerge == InitWith({}, 0, ProfiledDocs, {<<>>}) /\ contacts # Null

SpecMerge == InitMerge /\ [][NextEnrich]_vars

-----------------------------------------------------------------------------
(* Properties of the welcome flow *)

\* the status the contacts collection holds for the private chat
storedStatus ==
    IF PrivateJid \notin DOMAIN contacts THEN "norecord"
    ELSE IF Has(contacts[PrivateJid], "status") THEN contacts[PrivateJid].status
    ELSE "nostatus"

\* invocation i has returned
Finished(i) == pc[i] = "done"

\* i is the only invocation that has started
Alone(i) == \A j \in DOMAIN pc : j # i => pc[j] = "idle"

\* none of the recorded collaborator calls failed
AllOk(events) == \A k \in 1..Len(events) : events[k].ok

\* invocation i read a contact in one of statuses and got a text whose trimmed
\* form is a valid email, and none of its collaborator calls failed
EmailAccepted(i, statuses) ==
    /\ Finished(i)
    /\ seen[i] \in statuses
    /\ validateEmail(trim(msg[i].text))
    /\ AllOk(ev[i])

\* what handleEmailResponse does with a valid email, in order
emailEffects(i) ==
    <<SendEvent("emailConfirmation", TRUE),
      SaveEvent([jid |-> msg[i].jid, email |-> trim(msg[i].text),
                 status |-> EMAIL_RECEIVED], TRUE),
      LookupEvent(trim(msg[i].text))>>

\* C1: a message from a contact with no record ends with the record saved as
\* WELCOME_SENT, the welcome message sent once, the status then persisted as
\* WAITING_EMAIL (requestEmailImmediately), and the invocation handled.
\* The code does not satisfy it: the last write has no document to go to.
C1_UnknownContactEndsWaitingEmail ==
    \A i \in DOMAIN pc :
        (Finished(i) /\ seen[i] = "norecord" /\ faults = 0 /\ Alone(i)) =>
            /\ handled[i] = "true"
            /\ Len(ev[i]) = 3
            /\ ev[i][1] = SaveEvent([jid |-> msg[i].jid, status |-> WELCOME_SENT], TRUE)
            /\ ev[i][2] = SendEvent("welcome", TRUE)
            /\ ev[i][3].op = "save"
            /\ ev[i][3].ok
            /\ ev[i][3].data.status = WAITING_EMAIL
            /\ storedStatus = WAITING_EMAIL

\* C2: in WAITING_EMAIL a text whose trimmed form is a valid email gets one
\* confirmation, then the trimmed email and EMAIL_RECEIVED are written, and only
\* then one lookup is started with that email; the invocation is handled.
C2_ValidEmailStoredThenLookup ==
    \A i \in DOMAIN pc :
        EmailAccepted(i, {WAITING_EMAIL}) =>
            /\ handled[i] = "true"
            /\ ev[i] = emailEffects(i)
            /\ lpc[i] # "idle"
            /\ (lpc[i] = "l_get" /\ Alone(i)) =>
                   /\ storedStatus = EMAIL_RECEIVED
                   /\ contacts[PrivateJid].email = trim(msg[i].text)

\* a WAITING_EMAIL contact sent " J.d@b.co ": the record holds the trimmed email
C2_Witness ==
    \E i \in DOMAIN pc :
        /\ EmailAccepted(i, {WAITING_EMAIL})
        /\ msg[i].text # trim(msg[i].text)
        /\ ev[i] = emailEffects(i)
        /\ storedStatus = EMAIL_RECEIVED

\* invocation i read a WAITING_EMAIL contact and got a text that is no email
InvalidWhileWaiting(i) ==
    /\ Finished(i)
    /\ seen[i] = WAITING_EMAIL
    /\ ~validateEmail(trim(msg[i].text))

\* C3: in WAITING_EMAIL a text that is no valid email gets one error prompt and
\* nothing else: no write, no lookup.  As long as all the messages so far were
\* such texts the record stays WAITING_EMAIL without an email, however many
\* there were: maxEmailAttempts is not looked at.
C3_InvalidEmailOnlyPrompts ==
    /\ \A i \in DOMAIN pc :
          InvalidWhileWaiting(i) =>
              /\ ev[i] = <<SendEvent("emailError", TRUE)>>
              /\ handled[i] = "true"
              /\ lpc[i] = "idle"
    /\ (\A i \in DOMAIN pc : pc[i] # "idle" => InvalidWhileWaiting(i)) =>
          \/ \A i \in DOMAIN pc : pc[i] = "idle"
          \/ storedStatus = WAITING_EMAIL /\ ~Has(contacts[PrivateJid], "email")

\* more invalid emails in a row than maxEmailAttempts, each one answered
C3_Witness ==
    /\ \A i \in DOMAIN pc : InvalidWhileWaiting(i)
    /\ Cardinality(DOMAIN pc) > maxEmailAttempts
    /\ storedStatus = WAITING_EMAIL

\* C4: with status NEW, WELCOME_SENT or none, a valid email is handled as in
\* WAITING_EMAIL; any other text gets one email request and the status is
\* persisted as WAITING_EMAIL.  The code does not satisfy the second half for
\* a record the flow created itself.
C4_EarlyStatusAsksForEmail ==
    \A i \in DOMAIN pc :
        (/\ Finished(i)
         /\ seen[i] \in {NEW_CONTACT, WELCOME_SENT, "nostatus"}
         /\ faults = 0
         /\ Alone(i)) =>
            /\ handled[i] = "true"
            /\ IF validateEmail(trim(msg[i].text))
               THEN ev[i] = emailEffects(i)
               ELSE /\ Len(ev[i]) = 2
                    /\ ev[i][1] = SendEvent("emailRequest", TRUE)
                    /\ ev[i][2].op = "save"
                    /\ ev[i][2].ok
                    /\ ev[i][2].data.status = WAITING_EMAIL
                    /\ storedStatus = WAITING_EMAIL

\* C5: the lookup moves the contact to WAITING_CALL_PERMISSION only when the
\* enrichment it ran succeeded; otherwise the contact gets the not-found
\* message and becomes COMPLETED, whatever the record held before.  Stated for
\* records that have an id field; the code does not satisfy it when the record
\* carries the response of an earlier enrichment.
C5_LookupOutcomeFollowsEnrichment ==
    \A i \in DOMAIN pc :
        (/\ lpc[i] = "done"
         /\ faults = 0
         /\ Alone(i)
         /\ Has(contacts[PrivateJid], "id")) =>
            /\ Len(lev[i]) = 2
            /\ lev[i][2].op = "save"
            /\ lev[i][2].ok
            /\ IF lres[i].enriched
               THEN /\ lev[i][1] = SendEvent("linkedinFound", TRUE)
                    /\ lev[i][2].data.status = WAITING_CALL_PERMISSION
                    /\ storedStatus = WAITING_CALL_PERMISSION
               ELSE /\ lev[i][1] = SendEvent("linkedinNotFound", TRUE)
                    /\ lev[i][2].data.status = COMPLETED
                    /\ storedStatus = COMPLETED

\* C6: when a message of the lookup task cannot be sent, the exception is
\* caught inside the task and the contact ends COMPLETED.  The code does not
\* satisfy it for a record the flow created itself: the write of the catch
\* block has no document to go to.
C6_LookupFailureCompletes ==
    \A i \in DOMAIN pc :
        (/\ lpc[i] = "done"
         /\ Alone(i)
         /\ lev[i] # <<>>
         /\ ~lev[i][1].ok) =>
            /\ handled[i] = "true"
            /\ storedStatus = COMPLETED

\* C7: the invocation that accepts an email has returned handled before its
\* lookup task takes a step, and nothing changes a result once it is returned.
C7_ReplyIndependentOfLookup ==
    [][\A i \in DOMAIN pc :
          /\ (lpc[i] = "idle" /\ lpc'[i] # "idle") =>
                 /\ pc'[i] = "done"
                 /\ handled'[i] = "true"
                 /\ lpc'[i] = "l_get"
                 /\ lev'[i] = <<>>
          /\ lpc'[i] # "idle" => handled'[i] = "true"
          /\ handled[i] # "pending" => handled'[i] = handled[i]]_vars

\* the invocation has returned handled and its lookup has not yet read the contact
C7_Witness ==
    \E i \in DOMAIN pc :
        /\ Finished(i)
        /\ handled[i] = "true"
        /\ lpc[i] = "l_get"
        /\ storedStatus = EMAIL_RECEIVED

\* C8: in WAITING_CALL_PERMISSION or LINKEDIN_FOUND an affirmative text gets the
\* scheduling message, callPermission true with CALL_SCHEDULED is written, the
\* scheduler is called once, and the status is then persisted as COMPLETED.
\* The code does not satisfy the last step for a record without an id field.
C8_AffirmativeSchedulesAndCompletes ==
    \A i \in DOMAIN pc :
        (/\ Finished(i)
         /\ seen[i] \in {WAITING_CALL_PERMISSION, LINKEDIN_FOUND}
         /\ isPositive(msg[i].text)
         /\ faults = 0
         /\ Alone(i)) =>
            /\ handled[i] = "true"
            /\ Len(ev[i]) = 4
            /\ ev[i][1] = SendEvent("callScheduling", TRUE)
            /\ ev[i][2] = SaveEvent([jid |-> msg[i].jid, callPermission |-> TRUE,
                                     status |-> CALL_SCHEDULED], TRUE)
            /\ ev[i][3] = ScheduleEvent(contacts[PrivateJid].email, TRUE)
            /\ ev[i][4].op = "save"
            /\ ev[i][4].ok
            /\ ev[i][4].data.status = COMPLETED
            /\ storedStatus = COMPLETED

\* C9: an invocation that reads CALL_SCHEDULED, COMPLETED or CALL_FINISHED
\* returns not handled, and has sent nothing, written nothing, started nothing.
C9_ClosedStatusesIgnored ==
    \A i \in DOMAIN pc :
        (Finished(i) /\ seen[i] \in {CALL_SCHEDULED, COMPLETED, CALL_FINISHED}) =>
            /\ handled[i] = "false"
            /\ ev[i] = <<>>
            /\ lpc[i] = "idle"
            /\ snap[i] = [contact |-> Null, target |-> NoTarget]

\* a contact declined the call and wrote again: the second message is ignored
C9_Witness ==
    \E i, j \in DOMAIN pc :
        /\ Finished(i)
        /\ seen[i] = COMPLETED
        /\ handled[i] = "false"
        /\ ev[j] # <<>>
        /\ ev[j][Len(ev[j])] =
               SaveEvent([jid |-> msg[j].jid, callPermission |-> FALSE,
                          status |-> COMPLETED], TRUE)

\* C10 as the specification states it: once the status is COMPLETED no step
\* changes it, even when no collaborator call fails.
C10_CompletedAbsorbing ==
    [][(faults' = 0 /\ storedStatus = COMPLETED) => storedStatus' = COMPLETED]_vars

\* C10, amended: a step that replaces COMPLETED belongs to an invocation, or to
\* the lookup of an invocation, whose own read of the contact did not return
\* COMPLETED (it read an earlier status, or its read failed).
C10_CompletedReplacedOnlyByStaleStep ==
    [][(storedStatus = COMPLETED /\ storedStatus' # COMPLETED) =>
          \A i \in DOMAIN pc :
              (pc'[i] # pc[i] \/ lpc'[i] # lpc[i] \/ ev'[i] # ev[i] \/ lev'[i] # lev[i])
                  => seen[i] \notin {COMPLETED, "unread"}]_vars

\* an invocation read COMPLETED and returned, and the status is COMPLETED no more
C10_Witness ==
    \E i \in DOMAIN pc :
        /\ Finished(i)
        /\ seen[i] = COMPLETED
        /\ ev[i] = <<>>
        /\ storedStatus \notin {COMPLETED, "norecord"}

\* invocation i sent the welcome message
WelcomeSent(i) == \E k \in 1..Len(ev[i]) : ev[i][k] = SendEvent("welcome", TRUE)

\* C11: invocations are not serialized.  Each invocation that read "no record"
\* welcomes the contact, whatever another invocation for the same contact has
\* done in the meantime: two overlapping ones send the welcome twice.
C11_EachUnknownReadWelcomes ==
    \A i, j \in DOMAIN pc :
        (/\ i # j
         /\ Finished(i) /\ Finished(j)
         /\ seen[i] = "norecord" /\ seen[j] = "norecord"
         /\ msg[i].jid = msg[j].jid
         /\ faults = 0) =>
            WelcomeSent(i) /\ WelcomeSent(j)

\* two invocations read "no record" for the same contact and both sent the welcome
C11_Witness ==
    \E i, j \in DOMAIN pc :
        /\ i # j
        /\ seen[i] = "norecord" /\ seen[j] = "norecord"
        /\ msg[i].jid = msg[j].jid
        /\ WelcomeSent(i) /\ WelcomeSent(j)
        /\ faults = 0

\* the events a step appended to a log
Appended(old, new) == SubSeq(new, Len(old) + 1, Len(new))

\* every successful save among events left its status in the store
WritesLanded(events, status) ==
    \A k \in 1..Len(events) :
        (events[k].op = "save" /\ events[k].ok) => status = events[k].data.status

\* C12: the persisted status is that of the last write.  A successful write of
\* an invocation or of a lookup replaces the stored status whatever it was,
\* also by a status that comes earlier in the forward order.
C12_LastWriteWins ==
    [][\A i \in DOMAIN pc :
          /\ WritesLanded(Appended(ev[i], ev'[i]), storedStatus')
          /\ WritesLanded(Appended(lev[i], lev'[i]), storedStatus')]_vars

\* the successful saves of invocation i and of its lookup
SavedStatuses(i) ==
    {ev[i][k].data.status : k \in {n \in 1..Len(ev[i]) : ev[i][n].op = "save" /\ ev[i][n].ok}}
    \cup
    {lev[i][k].data.status : k \in {n \in 1..Len(lev[i]) : lev[i][n].op = "save" /\ lev[i][n].ok}}

\* without any failure, a later status one invocation wrote has been replaced
\* by an earlier one that another invocation wrote
C12_Witness ==
    \E i, j \in DOMAIN pc :
        /\ i # j
        /\ faults = 0
        /\ storedStatus \in ContactStatus
        /\ storedStatus \in SavedStatuses(j)
        /\ \E s \in SavedStatuses(i) \cap {EMAIL_RECEIVED, WAITING_CALL_PERMISSION, COMPLETED} :
               Rank[storedStatus] < Rank[s]

\* the statuses in the saves of a log
LoggedStatuses(events) ==
    {events[k].data.status : k \in {n \in 1..Len(events) : events[n].op = "save"}}

\* C13: every stored status and every status the flow writes is a member of
\* ContactStatus, and a record without a status is handled as a NEW one (the
\* switch takes the same branch for both, whatever the text; this does not
\* depend on the state and is evaluated before the first message).
C13_StatusInDefinedSet ==
    /\ \A j \in DOMAIN contacts :
          Has(contacts[j], "status") => contacts[j].status \in ContactStatus
    /\ \A i \in DOMAIN pc :
          LoggedStatuses(ev[i]) \cup LoggedStatuses(lev[i]) \subseteq ContactStatus
    /\ (\A i \in DOMAIN pc : pc[i] = "idle") =>
          \A d \in {x \in SeedDocs : ~Has(x, "status")}, t \in Texts :
              Dispatch(d, t) = Dispatch([status |-> NEW_CONTACT] @@ d, t)
    /\ \A i \in DOMAIN pc :
          (Finished(i) /\ seen[i] = "nostatus" /\ faults = 0) =>
              /\ handled[i] = "true"
              /\ ev[i] # <<>>
              /\ ev[i][1] \in {SendEvent("emailRequest", TRUE),
                               SendEvent("emailConfirmation", TRUE)}

\* a record without a status got an email and the flow wrote EMAIL_RECEIVED
C13_Witness ==
    \E i \in DOMAIN pc :
        /\ Finished(i)
        /\ seen[i] = "nostatus"
        /\ EMAIL_RECEIVED \in SavedStatuses(i)
        /\ storedStatus \in ContactStatus

\* what getContactByJid showed while the welcome flow was still in progress
InProgressSeen ==
    {"norecord", "nostatus", NEW_CONTACT, WELCOME_SENT, WAITING_EMAIL,
     EMAIL_RECEIVED, LINKEDIN_FOUND, WAITING_CALL_PERMISSION}

\* C14: a message of a contact whose welcome flow is in progress (no record, or
\* a status from NEW to WAITING_CALL_PERMISSION) is never handed by
\* handleMessage to the general AI responder.
C14_InProgressNeverReachesAI ==
    \A i \in DOMAIN pc :
        seen[i] \in InProgressSeen => hm[i] # "ai"

\* a sock.sendMessage of the log threw
SendThrew(events) ==
    \E k \in 1..Len(events) : events[k].op = "send" /\ ~events[k].ok

\* C15 as stated: whenever a collaborator call of an invocation failed (the
\* store, the transport or the scheduler), processWelcomeFlow returned false.
C15_EveryFailureReturnsFalse ==
    \A i \in DOMAIN pc :
        (Finished(i) /\ (~AllOk(ev[i]) \/ seen[i] = "readfailed")) =>
            handled[i] = "false"

\* C15: processWelcomeFlow never lets an exception escape, it always returns a
\* boolean; it returns false when sock.sendMessage threw.  (A failure of the
\* store is reported by saveContact and getContactByJid through their return
\* value, nothing is thrown and the flow goes on.)
C15_NoExceptionEscapes ==
    \A i \in DOMAIN pc :
        /\ handled[i] \in {"pending", "true", "false"}
        /\ Finished(i) => handled[i] \in {"true", "false"}
        /\ (Finished(i) /\ SendThrew(ev[i])) => handled[i] = "false"

\* a send threw, the invocation has returned false
C15_Witness ==
    \E i \in DOMAIN pc :
        /\ Finished(i)
        /\ SendThrew(ev[i])
        /\ handled[i] = "false"

\* C16: when a collaborator call of an invocation failed, the stored contact is
\* as the invocation found it: for the only invocation that has run, once
\* processWelcomeFlow has returned (and before handleMessage goes on), the
\* stored status is the one it read.
C16_FailureLeavesContactUnchanged ==
    \A i \in DOMAIN pc :
        (/\ Finished(i) /\ Alone(i)
         /\ hm[i] = "idle" /\ lpc[i] = "idle"
         /\ seen[i] # "readfailed"
         /\ ~AllOk(ev[i])) =>
            storedStatus = seen[i]

-----------------------------------------------------------------------------
(* Properties of the enrichment *)

\* a run is over in which enrichLinkedInData was called
RanEnrichment == enr.pc = "done" /\ enr.fetches = 1

\* C17: enrichLinkedInData never throws, it returns a contact; when it fails
\* (the fetch throws, the profile does not exist, the contact has no document
\* to update or the store fails) it returns the contact it was given as it was.
C17_FailureReturnsInput ==
    RanEnrichment =>
        /\ enr.result # Null
        /\ ~enr.enriched => enr.result = enr.input

\* the profile was fetched, but the update of the contact document failed
C17_Witness ==
    /\ RanEnrichment
    /\ ~enr.enriched
    /\ Len(enrichmentLog) >= 2
    /\ enrichmentLog[Len(enrichmentLog)].enrichedData # Null
    /\ enrichmentLog[Len(enrichmentLog)].created.at = enr.now
    /\ enr.result = enr.input

\* a request of the endpoint has been served whose body carries a Timestamp
\* as lastEnrichedAt
ServedStamped ==
    /\ enr.pc = "done"
    /\ enr.entry = "endpoint"
    /\ Has(enr.body, "linkedin")
    /\ stampOf(enr.body) # Null
    /\ stampOf(enr.body).kind = "Timestamp"

\* C18: when less than 30 days have passed since lastEnrichedAt (fractions of
\* a day included) the endpoint queries no cache, fetches nothing and answers
\* with the contact as it came; from 30 days on the cache is queried.
C18_FreshWithinThirtyDays ==
    ServedStamped =>
        IF abs(enr.now - stampOf(enr.body).at) < FreshDays * DayUnits
        THEN /\ enr.queries = 0
             /\ enr.fetches = 0
             /\ enr.status = "200"
             /\ enr.result = enr.body
        ELSE enr.queries = 1

\* the second run is over; it ran on the output of the first, which carries a
\* lastEnrichedAt less than 30 days old
RerunWithinWindow ==
    /\ enr.pc = "done"
    /\ enr.runs = 2
    /\ Has(enr.first, "linkedin")
    /\ stampOf(enr.first) # Null
    /\ abs(enr.now - stampOf(enr.first).at) < FreshDays * DayUnits

\* C19: a second run on the output of the first within the 30 days fetches
\* nothing from the provider and returns a contact equal to that output,
\* through the endpoint as well as through the state machine's lookup.
C19_RerunFetchesNothing ==
    RerunWithinWindow =>
        /\ enr.fetches = 0
        /\ enr.result # Null
        /\ Stored(enr.result) = Stored(enr.first)

\* a request was served from the cache: the record found was young enough and
\* complete, and the contact document was updated
ServedFromCache ==
    /\ enr.pc = "done"
    /\ enr.hit # Null
    /\ enr.result # Null

\* undefined, null, a blank string or an empty object
EmptyValues == {JsNull, JsString(<<>>), JsString(<<" ">>), JsObject({})}

\* the body holds a non-empty value under key
HoldsValue(contactData, key) ==
    /\ Has(contactData, key)
    /\ key \in TypedFields => contactData[key] \notin EmptyValues

\* the result has, under each of keys, the current value when there is a
\* non-empty one and the cached value otherwise
KeepsCurrent(keys) ==
    \A key \in keys :
        /\ Has(enr.result, key)
        /\ enr.result[key] = IF HoldsValue(enr.body, key) THEN enr.body[key]
                              ELSE enr.hit.enrichedData[key]

lastLogged(log) == log[Len(log)]

\* C21: when the provider answers with code 404 or 400, enrichLinkedInData
\* appends one record with the raw response and no enriched snapshot, returns
\* the contact it was given and leaves the contacts collection as it was.
C21_NotFoundOnlyLogs ==
    [][(/\ enr.pc \in {"enrich", "lookup"}
        /\ enr'.pc = "done"
        /\ Len(enrichmentLog') > Len(enrichmentLog)
        /\ Has(lastLogged(enrichmentLog').linkedInResponse, "code")) =>
           /\ Len(enrichmentLog') = Len(enrichmentLog) + 1
           /\ SubSeq(enrichmentLog', 1, Len(enrichmentLog)) = enrichmentLog
           /\ lastLogged(enrichmentLog').linkedInResponse.code \in {"404", "400"}
           /\ lastLogged(enrichmentLog').enrichedData = Null
           /\ enr'.result = enr'.input
           /\ ~enr'.enriched
           /\ contacts' = contacts]_vars

\* a run on a stored contact got code 404: the record is in the log, the
\* contact came back as it went in
C21_Witness ==
    /\ RanEnrichment
    /\ Has(enr.input, "id")
    /\ enr.input.id \in DOMAIN contacts
    /\ enrichmentLog # <<>>
    /\ lastLogged(enrichmentLog).linkedInResponse = [code |-> "404"]
    /\ lastLogged(enrichmentLog).enrichedData = Null
    /\ lastLogged(enrichmentLog).created.at = enr.now
    /\ enr.result = enr.input
    /\ ~Has(contacts[enr.input.id], "lastEnrichedAt")

\* a live enrichment is over: the profile was fetched, merged and written
LiveEnrichment == RanEnrichment /\ enr.enriched

\* the entries of history h of contactData that lack a profile URL
manualEntries(contactData, h, shape) ==
    IF Has(contactData, h)
    THEN {contactData[h][k] : k \in {m \in 1..Len(contactData[h]) :
                                        isManual(contactData[h][m], shape)}}
    ELSE {}

\* the entries of a history
entriesOf(history) == {history[k] : k \in 1..Len(history)}

\* C22: after a live enrichment every job or education entry the contact had
\* without a professional-network URL is in the merged history, in the returned
\* contact and in the stored one, with every field as it was, whatever the
\* provider answered and the organizations hold.
C22_ManualEntriesVerbatim ==
    LiveEnrichment =>
        \A shape \in {JobShape, EducationShape} :
            /\ manualEntries(enr.input, shape.history, shape)
                   \subseteq entriesOf(enr.result[shape.history])
            /\ manualEntries(enr.input, shape.history, shape)
                   \subseteq entriesOf(contacts[enr.input.id][shape.history])

\* the scalar fields of a contact, those written at the top and those of the
\* location
TopScalars == {"name", "firstName", "lastName", "jobTitle", "company"}
LocationScalars == {"city", "state", "country"}

\* what the provider's response has for a scalar field
providerValue(linkedInResponse, key) ==
    CASE key = "name" -> get(linkedInResponse, "name")
      [] key = "firstName" -> get(linkedInResponse, "localized_first_name")
      [] key = "lastName" -> get(linkedInResponse, "localized_last_name")
      [] key = "jobTitle" -> orElse(get(linkedInResponse, "headline"),
                                    get(linkedInResponse, "occupation"))
      [] OTHER -> get(linkedInResponse, key)

\* C23: after a live enrichment each scalar field that had a non-empty value
\* has it still, in the returned contact and in the stored record, the profile
\* URL included; a field takes the provider's value only when it was empty.
C23_ExistingScalarsWin ==
    LiveEnrichment =>
        LET stored == contacts[enr.input.id]
            response == enr.result.linkedinEnrichmentResponse
        IN /\ \A key \in TopScalars :
                  IF truthy(get(enr.input, key))
                  THEN /\ get(enr.result, key) = enr.input[key]
                       /\ get(stored, key) = enr.input[key]
                  ELSE /\ key # "company" =>
                            get(enr.result, key)
                                = orElse(providerValue(response, key), EmptyString)
                       /\ key # "company" => get(stored, key) = get(enr.result, key)
           /\ \A key \in LocationScalars :
                  /\ enr.result.location[key] = stored.location[key]
                  /\ enr.result.location[key] =
                         IF truthy(locationField(enr.input, key))
                         THEN enr.input.location[key]
                         ELSE orElse(providerValue(response, key), EmptyString)
           /\ enr.result.linkedin = enr.input.linkedin
           /\ stored.linkedin = enr.input.linkedin

\* the contact was an Engineer, the provider says VP, and the contact still
\* is an Engineer, in the returned contact and in the store
C23_Witness ==
    /\ LiveEnrichment
    /\ get(enr.input, "jobTitle") = JsString(<<"Engineer">>)
    /\ enr.result.linkedinEnrichmentResponse.headline = JsString(<<"VP">>)
    /\ enr.result.jobTitle = JsString(<<"Engineer">>)
    /\ contacts[enr.input.id].jobTitle = JsString(<<"Engineer">>)


-----------------------------------------------------------------------------
(* Vectors and their similarity *)

\* a number the similarity functions return: num / den, in lowest terms
gcd(a, b) ==
    LET g[p \in 0..a, q \in 0..b] ==
            IF q = 0 THEN p ELSE IF p = 0 THEN q
            ELSE IF p >= q THEN g[p - q, q] ELSE g[p, q - p]
    IN g[a, b]

Ratio(num, den) ==
    LET d == gcd(abs(num), den)
    IN [num |-> num \div d, den |-> den \div d]

Zero == [num |-> 0, den |-> 1]

\* throw new Error('Vectors must have the same length')
LengthError == [threw |-> "length"]

\* a > b on two numbers
greater(a, b) == a.num * b.den > b.num * a.den

\* the embeddings of the model: their norms are whole numbers, so that the
\* floating-point quotient of the code is the correctly rounded value of the
\* ratio and two similarities are equal as doubles exactly when the ratios are
Vectors == {<<1, 0>>, <<2, 0>>, <<0, 1>>, <<3, 4>>, <<0, 0>>, <<1>>}

\* Math.sqrt on the squared norm of one of Vectors
sqrt(n) == CHOOSE r \in 0..n : r * r = n

\* the three sums of the loop: for (let i = 0; i < vecA.length; i++)
sums(vecA, vecB, length) ==
    LET acc[i \in 0..length] ==
            IF i = 0 THEN [dotProduct |-> 0, normA |-> 0, normB |-> 0]
            ELSE [dotProduct |-> acc[i - 1].dotProduct + vecA[i] * vecB[i],
                  normA |-> acc[i - 1].normA + vecA[i] * vecA[i],
                  normB |-> acc[i - 1].normB + vecB[i] * vecB[i]]
    IN acc[length]

\* variant of cosineSimilarity that compares the common prefix of two vectors
\* of different lengths: property C28 must tell it from the code
cosineSimilarityTruncates(vecA, vecB) ==
    LET length == IF Len(vecA) < Len(vecB) THEN Len(vecA) ELSE Len(vecB)
        s == sums(vecA, vecB, length)
    IN IF s.normA = 0 \/ s.normB = 0 THEN Zero
       ELSE Ratio(s.dotProduct, sqrt(s.normA) * sqrt(s.normB))

\* cosineSimilarity(vecA, vecB) of the top-match search
cosineSimilarity(vecA, vecB) ==
    IF Len(vecA) # Len(vecB) THEN LengthError
    ELSE LET s == sums(vecA, vecB, Len(vecA))
         IN IF s.normA = 0 \/ s.normB = 0 THEN Zero
            ELSE Ratio(s.dotProduct, sqrt(s.normA) * sqrt(s.normB))

\* calculateCosineSimilarity(vectorA, vectorB) of the vector store
calculateCosineSimilarity(vectorA, vectorB) ==
    IF Len(vectorA) # Len(vectorB) THEN LengthError
    ELSE LET s == sums(vectorA, vectorB, Len(vectorA))
             magnitude == sqrt(s.normA) * sqrt(s.normB)
         IN IF magnitude = 0 THEN Zero ELSE Ratio(s.dotProduct, magnitude)

\* the contacts of the vector store, in the order a collection is read
\* (by document id)
ContactIds == <<"a@s.whatsapp.net", "b@s.whatsapp.net", "c@s.whatsapp.net">>

\* the documents of coll in reading order, each with its id:
\* snapshot.docs.map(doc => ({ id: doc.id, ...doc.data() }))
docsOf(coll) ==
    LET read[k \in 0..Len(ContactIds)] ==
            IF k = 0 THEN <<>>
            ELSE IF ContactIds[k] \in DOMAIN coll
                 THEN Append(read[k - 1], [id |-> ContactIds[k]] @@ coll[ContactIds[k]])
                 ELSE read[k - 1]
    IN read[Len(ContactIds)]

\* a loop in which a vector of another length only costs its own candidate
scanSkips(queryVector, minSimilarity, candidates) ==
    LET loop[k \in 0..Len(candidates)] ==
            IF k = 0
            THEN [topMatch |-> Null, highestSimilarity |-> minSimilarity,
                  threw |-> FALSE, compared |-> {}]
            ELSE LET before == loop[k - 1]
                     contact == candidates[k]
                     similarity == cosineSimilarity(queryVector, contact.embedding)
                 IN IF ~Has(contact, "embedding") THEN before
                    ELSE IF similarity = LengthError THEN before
                    ELSE IF greater(similarity, before.highestSimilarity)
                    THEN [topMatch |-> [contact |-> contact, similarity |-> similarity],
                          highestSimilarity |-> similarity, threw |-> FALSE,
                          compared |-> before.compared \cup {contact.id}]
                    ELSE [before EXCEPT !.compared = @ \cup {contact.id}]
    IN loop[Len(candidates)]

\* the loop of findTopMatch and findTopMatchByJid: a candidate replaces the
\* best one when its similarity is greater than the highest so far, which
\* starts at minSimilarity; an exception of cosineSimilarity leaves the loop
scan(queryVector, minSimilarity, candidates) ==
    LET loop[k \in 0..Len(candidates)] ==
            IF k = 0
            THEN [topMatch |-> Null, highestSimilarity |-> minSimilarity,
                  threw |-> FALSE, compared |-> {}]
            ELSE LET before == loop[k - 1]
                     contact == candidates[k]
                     similarity == cosineSimilarity(queryVector, contact.embedding)
                 IN IF before.threw \/ ~Has(contact, "embedding") THEN before
                    ELSE IF similarity = LengthError
                    THEN [before EXCEPT !.threw = TRUE]
                    ELSE IF greater(similarity, before.highestSimilarity)
                    THEN [topMatch |-> [contact |-> contact, similarity |-> similarity],
                          highestSimilarity |-> similarity, threw |-> FALSE,
                          compared |-> before.compared \cup {contact.id}]
                    ELSE [before EXCEPT !.compared = @ \cup {contact.id}]
    IN loop[Len(candidates)]

\* findTopMatch(queryVector, minSimilarity): reads the contacts collection;
\* the catch block returns null
findTopMatch(queryVector, minSimilarity, coll) ==
    LET found == scan(queryVector, minSimilarity, docsOf(coll))
    IN IF found.threw THEN Null ELSE found.topMatch

\* where('jid', '!=', jid): the documents that have another jid
others(coll, jid) ==
    LET docs == docsOf(coll)
        kept[k \in 0..Len(docs)] ==
            IF k = 0 THEN <<>>
            ELSE IF Has(docs[k], "jid") /\ docs[k].jid # jid
                 THEN Append(kept[k - 1], docs[k]) ELSE kept[k - 1]
    IN kept[Len(docs)]

\* findTopMatchByJid(jid, minSimilarity): reads the vectorizedContacts
\* collection, the source contact and then the others
findTopMatchByJid(jid, minSimilarity, coll) ==
    IF jid \notin DOMAIN coll THEN Null
    ELSE IF ~Has(coll[jid], "embedding") THEN Null
    ELSE LET found == scan(coll[jid].embedding, minSimilarity, others(coll, jid))
         IN IF found.threw THEN Null ELSE found.topMatch


\* limit = 10
DefaultLimit == 10

\* minSimilarity = 0.3
DefaultMinSimilarity == [num |-> 3, den |-> 10]

\* the thresholds a caller passes
Thresholds == {DefaultMinSimilarity, [num |-> 3, den |-> 5], Zero, [num |-> 1, den |-> 1]}

\* vectorVersion: 'text-embedding-3-small', and the version of a record
\* written before the model was changed
CurrentVersion == "text-embedding-3-small"
OlderVersion == "text-embedding-ada-002"

\* similarities.sort((a, b) => b.similarity - a.similarity): stable, from
\* the greatest to the smallest
sorted(similarities) ==
    LET insert(list, item) ==
            LET before == {k \in 1..Len(list) :
                              ~greater(item.similarity, list[k].similarity)}
                at == IF before = {} THEN 0 ELSE CHOOSE k \in before : \A m \in before : m <= k
            IN SubSeq(list, 1, at) \o <<item>> \o SubSeq(list, at + 1, Len(list))
        build[k \in 0..Len(similarities)] ==
            IF k = 0 THEN <<>> ELSE insert(build[k - 1], similarities[k])
    IN build[Len(similarities)]

\* findSimilarContacts({ queryVector, limit, minSimilarity, excludeJids }):
\* results is what it returns, compared the records whose similarity with the
\* query was computed; an exception of calculateCosineSimilarity skips the record
findSimilarContacts(searchVector, limit, minSimilarity, excludeJids, store) ==
    LET docs == docsOf(store)
        loop[k \in 0..Len(docs)] ==
            IF k = 0 THEN [similarities |-> <<>>, compared |-> {}]
            ELSE LET before == loop[k - 1]
                     contact == docs[k]
                     similarity ==
                         calculateCosineSimilarity(searchVector, contact.embeddingVector)
                 IN IF contact.jid \in excludeJids \/ similarity = LengthError THEN before
                    ELSE [similarities |->
                              IF ~greater(minSimilarity, similarity)
                              THEN Append(before.similarities,
                                          [contact |-> contact, similarity |-> similarity])
                              ELSE before.similarities,
                          compared |-> before.compared \cup {contact.jid}]
        found == loop[Len(docs)]
        sortedResults == sorted(found.similarities)
    IN [results |-> SubSeq(sortedResults, 1,
                           IF Len(sortedResults) < limit THEN Len(sortedResults) ELSE limit),
        compared |-> found.compared]


\* the time the vector store is used at; the records it holds were written
\* before, and a contact was enriched before or after that
VectorNow == 4
VectorizedBefore == 2
EnrichedAts == {1, 3}

\* what the embedding backend returns for the description of a contact
embeddingOf(jid) ==
    CASE jid = ContactIds[1] -> <<1, 0>>
      [] jid = ContactIds[2] -> <<3, 4>>
      [] OTHER -> <<0, 1>>

\* the embedding of a contact: the contacts of the welcome flow, which have a
\* status, all get the same one
embeddingOfContact(contact) ==
    IF Has(contact, "status") THEN <<0, 1>> ELSE embeddingOf(contact.jid)

\* vectorizeContact(contact): the contacts of the model have a name, so the
\* description is not empty and the backend is called; the record is written
\* with merge when the backend answers
vectorizeContact(contact, store, now, backendOk) ==
    LET vectorizedContact ==
            [jid |-> contact.jid, name |-> contact.name,
             embeddingVector |-> embeddingOfContact(contact),
             vectorizedAt |-> now, vectorVersion |-> CurrentVersion]
    IN IF ~backendOk THEN [result |-> FALSE, called |-> TRUE, store |-> store]
       ELSE [result |-> TRUE, called |-> TRUE,
             store |-> [j \in DOMAIN store \cup {contact.jid} |->
                           IF j = contact.jid
                           THEN Merge(IF j \in DOMAIN store THEN store[j] ELSE Null,
                                      vectorizedContact)
                           ELSE store[j]]]

\* contact.linkedinData?.searchedAt && existingVectorized.vectorizedAt &&
\* searchedAt.toMillis() > vectorizedAt.toMillis()
needsUpdate(contact, existingVectorized) ==
    /\ Has(contact, "linkedinData")
    /\ Has(contact.linkedinData, "searchedAt")
    /\ Has(existingVectorized, "vectorizedAt")
    /\ contact.linkedinData.searchedAt > existingVectorized.vectorizedAt

\* the same test on lastEnrichedAt, the stamp the enrichment writes
needsUpdateByEnrichment(contact, existingVectorized) ==
    /\ Has(contact, "lastEnrichedAt")
    /\ Has(existingVectorized, "vectorizedAt")
    /\ contact.lastEnrichedAt > existingVectorized.vectorizedAt

\* revectorizeContact(contact)
revectorizeContact(contact, store, now, backendOk) ==
    IF contact.jid \notin DOMAIN store
    THEN vectorizeContact(contact, store, now, backendOk)
    ELSE LET existingVectorized == store[contact.jid]
         IN IF \/ needsUpdate(contact, existingVectorized)
               \/ existingVectorized.vectorVersion # CurrentVersion
            THEN vectorizeContact(contact, store, now, backendOk)
            ELSE [result |-> FALSE, called |-> FALSE, store |-> store]

-----------------------------------------------------------------------------
(* The searches and the revectorization, applied to a store of three contacts *)

ContactIdSet == {ContactIds[k] : k \in 1..Len(ContactIds)}

\* no embedding on the document
NoEmbedding == <<>>

\* a contact document of the store, with an embedding or without
EmbeddedDoc(jid, embedding) ==
    [jid |-> jid, name |-> "Ann"]
    @@ (IF embedding = NoEmbedding THEN Null ELSE [embedding |-> embedding])

\* the contents of the contacts collection (and of vectorizedContacts, which
\* findTopMatchByJid reads): every contact with any embedding or none, or no
\* contact at all
EmbeddedCollections ==
    {Null} \cup
    {[j \in ContactIdSet |-> EmbeddedDoc(j, e[j])] :
        e \in [ContactIdSet -> Vectors \cup {NoEmbedding}]}

\* a record of vectorized-contacts: of the current model, or of an older
\* model, whose vectors have the same dimension or another one
VectorRecords(jid) ==
    {[jid |-> jid, name |-> "Ann", embeddingVector |-> v.vector,
      vectorizedAt |-> VectorizedBefore, vectorVersion |-> v.version] :
        v \in {[vector |-> embeddingOf(jid), version |-> CurrentVersion],
               [vector |-> <<2, 0>>, version |-> OlderVersion],
               [vector |-> <<1>>, version |-> OlderVersion]}}

VectorStores ==
    UNION {{s \in [ids -> UNION {VectorRecords(j) : j \in ids}] :
               \A j \in ids : s[j] \in VectorRecords(j)} :
           ids \in SUBSET ContactIdSet}

\* the contacts carry embeddings, and so do the documents of vectorizedContacts
InitVector ==
    /\ InitOthers({}, 0, {<<>>})
    /\ contacts \in EmbeddedCollections
    /\ vs = [NoVectors EXCEPT !.vectorizedContacts = contacts]

\* the contacts carry no embedding and vectorized-contacts holds records
InitStore ==
    /\ InitOthers({}, 0, {<<>>})
    /\ contacts = [j \in ContactIdSet |-> EmbeddedDoc(j, NoEmbedding)]
    /\ \E s \in VectorStores : vs = [NoVectors EXCEPT !.store = s]

\* nothing but the vector store and the contacts is touched
OnlyVectors ==
    UNCHANGED <<enrichmentLog, pc, msg, seen, snap, handled, ev, lpc, lsnap, lres, lev,
                faults, hm, enr>>

\* the store is as it was at the start or as a write has left it: the
\* searches are applied to these stores, not to one another's results
Written ==
    IF vs.last = Null THEN TRUE
    ELSE vs.last.op \in {"revectorizeContact", "finished"} /\ vs.last.wrote

\* the vectors a caller searches with; [] is what the call-finished flow
\* passes for a contact without an embedding
QueryVectors == Vectors \cup {<<>>}

\* a caller applies cosineSimilarity and calculateCosineSimilarity
Cosine ==
    /\ Written
    /\ \E vecA \in QueryVectors, vecB \in QueryVectors :
        vs' = [vs EXCEPT !.last =
                  [op |-> "cosineSimilarity", vecA |-> vecA, vecB |-> vecB,
                   result |-> cosineSimilarity(vecA, vecB),
                   calculated |-> calculateCosineSimilarity(vecA, vecB)]]
    /\ UNCHANGED contacts
    /\ OnlyVectors

\* findTopMatch(queryVector, minSimilarity)
TopMatch ==
    /\ Written
    /\ \E queryVector \in QueryVectors, minSimilarity \in Thresholds :
        vs' = [vs EXCEPT !.last =
                  [op |-> "findTopMatch", queryVector |-> queryVector,
                   minSimilarity |-> minSimilarity, candidates |-> docsOf(contacts),
                   result |-> findTopMatch(queryVector, minSimilarity, contacts)]]
    /\ UNCHANGED contacts
    /\ OnlyVectors

\* findTopMatchByJid(jid, minSimilarity)
TopMatchByJid ==
    /\ Written
    /\ \E jid \in ContactIdSet, minSimilarity \in Thresholds :
        vs' = [vs EXCEPT !.last =
                  [op |-> "findTopMatchByJid", jid |-> jid,
                   queryVector |-> IF jid \in DOMAIN vs.vectorizedContacts
                                      /\ Has(vs.vectorizedContacts[jid], "embedding")
                                   THEN vs.vectorizedContacts[jid].embedding
                                   ELSE NoEmbedding,
                   minSimilarity |-> minSimilarity,
                   candidates |-> others(vs.vectorizedContacts, jid),
                   result |-> findTopMatchByJid(jid, minSimilarity, vs.vectorizedContacts)]]
    /\ UNCHANGED contacts
    /\ OnlyVectors

\* POST /api/finished: the contact is read, saveContact is called with
\* jid: contact.id and the status CALL_FINISHED, the top match is looked for
\* with the contact's own embedding, and the follow-up message is sent
CallFinished ==
    /\ Written
    /\ \E jid \in ContactIdSet :
        LET contact == getContactByJid(contacts, jid, TRUE)
            contactData ==
                (IF Has(contact, "id") THEN [jid |-> contact.id] ELSE Null)
                @@ [status |-> CALL_FINISHED] @@ Pick(contact, {"name"})
        IN IF contact = Null
           THEN /\ vs' = [vs EXCEPT !.last = [op |-> "finished", jid |-> jid,
                                              status |-> "404", wrote |-> FALSE]]
                /\ UNCHANGED contacts
           ELSE /\ contacts' = saveContact(contacts, contactData, TRUE)
                /\ vs' = [vs EXCEPT !.last =
                             [op |-> "finished", jid |-> jid, status |-> "200",
                              wrote |-> contacts' # contacts,
                              result |-> findTopMatch(IF Has(contact, "embedding")
                                                      THEN contact.embedding ELSE <<>>,
                                                      DefaultMinSimilarity, contacts')]]
    /\ OnlyVectors

\* a search for the contacts similar to a query text (the vector comes from
\* the backend, of the current model) or similar to a vectorized contact (the
\* vector is the one of its record, the contact itself is excluded)
Similar ==
    /\ Written
    /\ \E source \in DOMAIN vs.store \cup {"query"}, minSimilarity \in Thresholds :
        LET searchVector == IF source = "query" THEN <<1, 0>>
                            ELSE vs.store[source].embeddingVector
            version == IF source = "query" THEN CurrentVersion
                       ELSE vs.store[source].vectorVersion
            found == findSimilarContacts(searchVector, DefaultLimit, minSimilarity,
                                         IF source = "query" THEN {} ELSE {source},
                                         vs.store)
        IN vs' = [vs EXCEPT !.last =
                     [op |-> "findSimilarContacts", source |-> source,
                      searchVector |-> searchVector, version |-> version,
                      minSimilarity |-> minSimilarity,
                      results |-> found.results, compared |-> found.compared]]
    /\ UNCHANGED contacts
    /\ OnlyVectors

\* the records of vectorized-contacts for the contacts of coll that carry an
\* embedding, written by the current model
vectorizedOf(coll) ==
    LET embedded == {j \in DOMAIN coll : Has(coll[j], "embedding")}
    IN [j \in embedded |->
           [jid |-> j, name |-> "Ann", embeddingVector |-> coll[j].embedding,
            vectorizedAt |-> VectorizedBefore, vectorVersion |-> CurrentVersion]]

\* the same vectors are in the contacts and in vectorized-contacts
InitSearch ==
    /\ InitOthers({}, 0, {<<>>})
    /\ contacts \in EmbeddedCollections
    /\ vs = [NoVectors EXCEPT !.vectorizedContacts = contacts,
                              !.store = vectorizedOf(contacts)]

\* after a search for the top match, findSimilarContacts is called with the
\* same vector and the same threshold (and without the contact itself when
\* the search was by jid)
SimilarAfterTopMatch ==
    /\ IF vs.last = Null THEN FALSE
       ELSE vs.last.op \in {"findTopMatch", "findTopMatchByJid"}
    /\ LET excludeJids == IF vs.last.op = "findTopMatchByJid" THEN {vs.last.jid} ELSE {}
           found == findSimilarContacts(vs.last.queryVector, DefaultLimit,
                                        vs.last.minSimilarity, excludeJids, vs.store)
       IN vs' = [vs EXCEPT !.last =
                    [op |-> "findSimilarContacts", source |-> "query",
                     searchVector |-> vs.last.queryVector, version |-> CurrentVersion,
                     minSimilarity |-> vs.last.minSimilarity,
                     results |-> found.results, compared |-> found.compared,
                     excludeJids |-> excludeJids, top |-> vs.last]]
    /\ UNCHANGED contacts
    /\ OnlyVectors

NextSearch ==
    \/ TopMatch
    \/ TopMatchByJid
    \/ SimilarAfterTopMatch

SpecSearch == InitSearch /\ [][NextSearch]_vars

\* nothing but the vector store and the fault count is touched
OnlyStore ==
    UNCHANGED <<enrichmentLog, pc, msg, seen, snap, handled, ev, lpc, lsnap, lres, lev,
                hm, enr>>

\* the contacts a caller passes to revectorizeContact: the document, with the
\* time of a profile search, of an enrichment, both or none
RevectorizeInputs(doc) ==
    {doc @@ (IF searchedAt = 0 THEN Null ELSE [linkedinData |-> [searchedAt |-> searchedAt]])
         @@ (IF lastEnrichedAt = 0 THEN Null ELSE [lastEnrichedAt |-> lastEnrichedAt]) :
        searchedAt \in EnrichedAts \cup {0}, lastEnrichedAt \in EnrichedAts \cup {0}}

\* revectorizeContact(contact)
Revectorize ==
    /\ Written
    /\ \E jid \in DOMAIN contacts, backendOk \in BOOLEAN :
       \E contact \in RevectorizeInputs(contacts[jid]) :
        LET r == revectorizeContact(contact, vs.store, VectorNow, backendOk)
        IN vs' = [vs EXCEPT !.store = r.store,
                            !.last = [op |-> "revectorizeContact", contact |-> contact,
                                      before |-> vs.store, called |-> r.called,
                                      wrote |-> r.store # vs.store,
                                      result |-> r.result]]
    /\ UNCHANGED contacts
    /\ OnlyVectors

NextVector ==
    \/ Cosine
    \/ TopMatch
    \/ TopMatchByJid
    \/ CallFinished

SpecVector == InitVector /\ [][NextVector]_vars

NextStore ==
    \/ Similar
    \/ Revectorize

SpecStore == InitStore /\ [][NextStore]_vars


-----------------------------------------------------------------------------
(* Properties of the searches and of the vector store *)

\* the last operation applied was op
Applied(op) == IF vs.last = Null THEN FALSE ELSE vs.last.op = op

\* the squared norm of a vector
normOf(vec) == sums(vec, vec, Len(vec)).normA

\* C28: cosineSimilarity and calculateCosineSimilarity fail with an error
\* whenever the two vectors differ in length, and return 0 when the lengths
\* are equal and one of the vectors has norm zero.
C28_LengthMismatchFails ==
    Applied("cosineSimilarity") =>
        IF Len(vs.last.vecA) # Len(vs.last.vecB)
        THEN vs.last.result = LengthError /\ vs.last.calculated = LengthError
        ELSE /\ vs.last.result # LengthError
             /\ vs.last.calculated = vs.last.result
             /\ (normOf(vs.last.vecA) = 0 \/ normOf(vs.last.vecB) = 0)
                    => vs.last.result = Zero

\* a vector of two components was compared with a vector of one whose only
\* component equals its first: both functions failed
C28_Witness ==
    /\ Applied("cosineSimilarity")
    /\ vs.last.vecA = <<1, 0>>
    /\ vs.last.vecB = <<1>>
    /\ vs.last.result = LengthError
    /\ vs.last.calculated = LengthError

\* a top-match search has been applied
TopMatched == Applied("findTopMatch") \/ Applied("findTopMatchByJid")

\* the candidates of the last search whose similarity with the query is not
\* below the threshold
qualifying ==
    {k \in 1..Len(vs.last.candidates) :
        /\ Has(vs.last.candidates[k], "embedding")
        /\ Len(vs.last.candidates[k].embedding) = Len(vs.last.queryVector)
        /\ ~greater(vs.last.minSimilarity,
                    cosineSimilarity(vs.last.queryVector,
                                     vs.last.candidates[k].embedding))}

\* the first scanned of the qualifying candidates of maximum similarity
best ==
    LET sim(k) == cosineSimilarity(vs.last.queryVector, vs.last.candidates[k].embedding)
        top == {k \in qualifying : \A m \in qualifying : ~greater(sim(m), sim(k))}
    IN CHOOSE k \in top : \A m \in top : k <= m

\* C24: findTopMatch and findTopMatchByJid return the candidate of maximum
\* similarity among those whose similarity is not below the threshold, the
\* first scanned on ties, and null when no candidate qualifies.
C24_TopMatchIsBestQualifying ==
    TopMatched =>
        IF vs.last.queryVector = NoEmbedding /\ Applied("findTopMatchByJid")
        THEN vs.last.result = Null
        ELSE IF qualifying = {} THEN vs.last.result = Null
        ELSE vs.last.result =
                [contact |-> vs.last.candidates[best],
                 similarity |-> cosineSimilarity(vs.last.queryVector,
                                                 vs.last.candidates[best].embedding)]

\* C25: the top match found for a contact is another contact, in the
\* call-finished flow as in findTopMatchByJid.
C25_TopMatchIsAnother ==
    (Applied("finished") \/ Applied("findTopMatchByJid")) =>
        IF Has(vs.last, "result") /\ vs.last.result # Null
        THEN vs.last.result.contact.jid # vs.last.jid
        ELSE TRUE

C27_ReembedsIffStale ==
    Applied("revectorizeContact") =>
        LET jid == vs.last.contact.jid
            stale == \/ jid \notin DOMAIN vs.last.before
                     \/ needsUpdateByEnrichment(vs.last.contact, vs.last.before[jid])
                     \/ vs.last.before[jid].vectorVersion # CurrentVersion
        IN /\ vs.last.called <=> stale
           /\ ~stale => vs.store = vs.last.before


-----------------------------------------------------------------------------
(* The Cloud Functions that vectorize the completed contacts *)

\* the contacts of the collection; their ids are in the order of a read
NumContacts == 11

\* .limit(10), limit = 20, if (limit > 100)
ScheduledLimit == 10
DefaultBatchLimit == 20
MaxBatchLimit == 100

\* runs of vectorizeBatch with forceRevectorize
MaxForcedRuns == 1

ContactNumbers == 1..NumContacts

\* a contact of the collection: completed or still waiting for the call,
\* with an email or with nothing to vectorize
BatchDoc(id, completed, sufficient) ==
    [jid |-> id, name |-> "Ann",
     status |-> IF completed THEN COMPLETED ELSE CALL_SCHEDULED]
    @@ (IF sufficient THEN [email |-> SeedEmail] ELSE Null)

\* the collections of the model: at most one contact is not completed, at
\* most one has nothing to vectorize
BatchCollections ==
    {[id \in ContactNumbers |-> BatchDoc(id, id # waiting, id # bare)] :
        waiting \in {0, 2}, bare \in {0, 1}}

\* the records vectorized-contacts holds at the start: those of the first
\* contacts of the collection
BatchStores ==
    {[id \in 1..k |-> [jid |-> id, vectorizedAt |-> 0, vectorVersion |-> CurrentVersion]] :
        k \in {0, 1, NumContacts - 1, NumContacts}}

\* where('status', '==', COMPLETED).limit(limit): the first documents, by id
completedDocs(coll, limit) ==
    LET read[k \in 0..NumContacts] ==
            IF k = 0 THEN <<>>
            ELSE IF k \in DOMAIN coll /\ statusOf(coll[k]) = COMPLETED
                    /\ Len(read[k - 1]) < limit
                 THEN Append(read[k - 1], k) ELSE read[k - 1]
    IN read[NumContacts]

\* hasLinkedInData || hasEmail
sufficient(contactData) ==
    LET hasLinkedInData ==
            IF Has(contactData, "linkedinData")
            THEN \E f \in {"headline", "company", "experience"} :
                    Has(contactData.linkedinData, f)
            ELSE FALSE
        hasEmail ==
            IF Has(contactData, "email") THEN includes(contactData.email, <<"@">>)
            ELSE FALSE
    IN hasLinkedInData \/ hasEmail

\* vectorizeCompletedContact(contactId, contactData): without enough data it
\* fails before the backend is called; when the backend answers, the record
\* is written under contactId
vectorizeCompletedContact(contactId, contactData, store, now, backendOk) ==
    IF ~sufficient(contactData)
    THEN [success |-> FALSE, called |-> FALSE, store |-> store]
    ELSE IF ~backendOk
    THEN [success |-> FALSE, called |-> TRUE, store |-> store]
    ELSE [success |-> TRUE, called |-> TRUE,
          store |-> [j \in DOMAIN store \cup {contactId} |->
                        IF j = contactId
                        THEN Merge(IF j \in DOMAIN store THEN store[j] ELSE Null,
                                   [jid |-> contactData.jid, vectorizedAt |-> now,
                                    vectorVersion |-> CurrentVersion])
                        ELSE store[j]]]

\* what is kept of the run before
summaryOf(last) ==
    IF last = Null THEN Null
    ELSE [op |-> last.op, limit |-> last.limit, successful |-> last.successful,
          failed |-> last.processed - last.successful]

\* a run starts: the snapshot of the completed contacts is taken
started(op, limit, forceRevectorize, now) ==
    [op |-> op, limit |-> limit, forceRevectorize |-> forceRevectorize,
     docs |-> completedDocs(contacts, limit), vectorizedJids |-> DOMAIN vs.store,
     at |-> 1, processed |-> 0, successful |-> 0, embedded |-> {}, reembedded |-> {},
     inflight |-> 0, now |-> now, previous |-> summaryOf(vs.last)]

\* a run is over: what it did
ended(run) ==
    [op |-> run.op, limit |-> run.limit, forceRevectorize |-> run.forceRevectorize,
     processed |-> run.processed, successful |-> run.successful,
     embedded |-> run.embedded, reembedded |-> run.reembedded,
     previous |-> run.previous]

Running(op) == IF vs.run = Null THEN FALSE ELSE vs.run.op = op

\* the run goes to the next document, after a call of
\* vectorizeCompletedContact (r) or without one (Null)
advanced(run, contactId, r) ==
    IF r = Null THEN [run EXCEPT !.at = @ + 1]
    ELSE [run EXCEPT !.at = @ + 1,
                     !.processed = @ + 1,
                     !.successful = IF r.success THEN @ + 1 ELSE @,
                     !.embedded = IF r.called THEN @ \cup {contactId} ELSE @,
                     !.reembedded = IF r.called /\ contactId \in DOMAIN vs.store
                                    THEN @ \cup {contactId} ELSE @]

\* a loop that does not wait for the answer of the backend
awaitingNever(run) == FALSE

\* await vectorizeCompletedContact(...) / await vectorizeContact(...): the
\* loop is suspended while the request to the backend is in flight
awaiting(run) == run.inflight > 0

\* the request for the embedding of the document at hand leaves
issued(run) == [run EXCEPT !.inflight = @ + 1]

\* the answer r to the request for contactId is in: the loop resumes
answered(run, contactId, r) ==
    [advanced(run, contactId, r) EXCEPT !.inflight = @ - 1]

\* the document of the loop's iteration
current(run) == run.docs[run.at]

\* scheduledVectorization, every 60 minutes: the first ten completed
\* contacts and the ids of the vectorized ones are read
ScheduledStart ==
    /\ vs.run = Null
    /\ vs' = [vs EXCEPT !.run = started("scheduledVectorization", ScheduledLimit,
                                        FALSE, vs.clock)]
    /\ UNCHANGED <<contacts, faults>>
    /\ OnlyStore

\* the loop of scheduledVectorization on one document, up to the request to
\* the backend: a vectorized contact is skipped, a contact without enough data
\* fails without a request
ScheduledStep ==
    /\ Running("scheduledVectorization")
    /\ ~awaiting(vs.run)
    /\ vs.run.at <= Len(vs.run.docs)
    /\ LET contactId == current(vs.run)
           r == vectorizeCompletedContact(contactId, contacts[contactId],
                                          vs.store, vs.run.now, TRUE)
       IN vs' = IF contactId \in vs.run.vectorizedJids
                THEN [vs EXCEPT !.run = advanced(vs.run, contactId, Null)]
                ELSE IF ~r.called
                THEN [vs EXCEPT !.run = advanced(vs.run, contactId, r)]
                ELSE [vs EXCEPT !.run = issued(vs.run)]
    /\ UNCHANGED <<contacts, faults>>
    /\ OnlyStore

\* the backend answers, or fails: the record is written, the counters move
ScheduledAnswer ==
    /\ Running("scheduledVectorization")
    /\ vs.run.inflight > 0
    /\ \E backendOk \in Outcomes :
          LET contactId == current(vs.run)
              r == vectorizeCompletedContact(contactId, contacts[contactId],
                                             vs.store, vs.run.now, backendOk)
          IN /\ Charge(backendOk)
             /\ vs' = [vs EXCEPT !.store = r.store,
                                 !.run = answered(vs.run, contactId, r)]
    /\ UNCHANGED contacts
    /\ OnlyStore

\* the run of scheduledVectorization is over
ScheduledEnd ==
    /\ Running("scheduledVectorization")
    /\ vs.run.at > Len(vs.run.docs)
    /\ vs' = [vs EXCEPT !.run = Null, !.last = ended(vs.run)]
    /\ UNCHANGED <<contacts, faults>>
    /\ OnlyStore

\* the limits a caller of vectorizeBatch passes
BatchLimits == {2, DefaultBatchLimit, MaxBatchLimit + 1}

\* vectorizeBatch({ limit, forceRevectorize }): a limit above 100 is refused,
\* otherwise the first limit completed contacts are read
BatchStart ==
    /\ vs.run = Null
    /\ \E limit \in BatchLimits, forceRevectorize \in BOOLEAN :
        /\ forceRevectorize => vs.clock < MaxForcedRuns
        /\ LET now == IF forceRevectorize THEN vs.clock + 1 ELSE vs.clock
               run == started("vectorizeBatch", limit, forceRevectorize, now)
           IN IF limit > MaxBatchLimit
              THEN vs' = [vs EXCEPT !.last = ended([run EXCEPT !.docs = <<>>])]
              ELSE vs' = [vs EXCEPT !.run = run, !.clock = now]
    /\ UNCHANGED <<contacts, faults>>
    /\ OnlyStore

\* the loop always goes on to vectorizeCompletedContact
skippedNever(forceRevectorize, contactId, store) == FALSE

\* if (!forceRevectorize) { ... if (vectorizedDoc.exists) continue }
skipped(forceRevectorize, contactId, store) ==
    ~forceRevectorize /\ contactId \in DOMAIN store

\* the loop of vectorizeBatch on one document, up to the request to the
\* backend: unless forced, the record of the contact is read and the contact
\* is skipped when there is one
BatchStep ==
    /\ Running("vectorizeBatch")
    /\ ~awaiting(vs.run)
    /\ vs.run.at <= Len(vs.run.docs)
    /\ LET contactId == current(vs.run)
           r == vectorizeCompletedContact(contactId, contacts[contactId],
                                          vs.store, vs.run.now, TRUE)
       IN vs' = IF skipped(vs.run.forceRevectorize, contactId, vs.store)
                THEN [vs EXCEPT !.run = advanced(vs.run, contactId, Null)]
                ELSE IF ~r.called
                THEN [vs EXCEPT !.run = advanced(vs.run, contactId, r)]
                ELSE [vs EXCEPT !.run = issued(vs.run)]
    /\ UNCHANGED <<contacts, faults>>
    /\ OnlyStore

\* the backend answers, or fails
BatchAnswer ==
    /\ Running("vectorizeBatch")
    /\ vs.run.inflight > 0
    /\ \E backendOk \in Outcomes :
          LET contactId == current(vs.run)
              r == vectorizeCompletedContact(contactId, contacts[contactId],
                                             vs.store, vs.run.now, backendOk)
          IN /\ Charge(backendOk)
             /\ vs' = [vs EXCEPT !.store = r.store,
                                 !.run = answered(vs.run, contactId, r)]
    /\ UNCHANGED contacts
    /\ OnlyStore

\* the run of vectorizeBatch is over
BatchEnd ==
    /\ Running("vectorizeBatch")
    /\ vs.run.at > Len(vs.run.docs)
    /\ vs' = [vs EXCEPT !.run = Null, !.last = ended(vs.run)]
    /\ UNCHANGED <<contacts, faults>>
    /\ OnlyStore

\* vectorizeAllContacts(limit = 10) of the bot
DefaultAllLimit == 10

\* the limits a caller of vectorizeAllContacts passes
AllLimits == {2, DefaultAllLimit}

\* db.collection('contacts').limit(limit * 2): the first documents, by id,
\* whatever their status
firstDocs(coll, limit) ==
    [k \in 1..(IF NumContacts < limit THEN NumContacts ELSE limit) |-> k]

\* vectorizeAllContacts(limit): twice as many contacts as the limit and the
\* ids of the vectorized ones are read
AllStart ==
    /\ vs.run = Null
    /\ \E limit \in AllLimits :
        vs' = [vs EXCEPT !.run =
                  [started("vectorizeAllContacts", limit, FALSE, vs.clock)
                      EXCEPT !.docs = firstDocs(contacts, limit * 2)]]
    /\ UNCHANGED <<contacts, faults>>
    /\ OnlyStore

\* if (processed >= limit) break
full(run) == run.processed >= run.limit

\* the loop of vectorizeAllContacts on one document, up to the request to the
\* backend: a vectorized contact is skipped, a contact without linkedinData
\* and email is counted as processed without a request
AllStep ==
    /\ Running("vectorizeAllContacts")
    /\ ~awaiting(vs.run)
    /\ vs.run.at <= Len(vs.run.docs)
    /\ ~full(vs.run)
    /\ LET contact == contacts[current(vs.run)]
       IN vs' = IF contact.jid \in vs.run.vectorizedJids
                THEN [vs EXCEPT !.run = advanced(vs.run, contact.jid, Null)]
                ELSE IF ~(Has(contact, "linkedinData") \/ Has(contact, "email"))
                THEN [vs EXCEPT !.run = advanced(vs.run, contact.jid,
                                                 [success |-> FALSE, called |-> FALSE])]
                ELSE [vs EXCEPT !.run = issued(vs.run)]
    /\ UNCHANGED <<contacts, faults>>
    /\ OnlyStore

\* const success = await vectorizeContact(contact): the backend answers, or
\* fails
AllAnswer ==
    /\ Running("vectorizeAllContacts")
    /\ vs.run.inflight > 0
    /\ \E backendOk \in Outcomes :
          LET contact == contacts[current(vs.run)]
              r == vectorizeContact(contact, vs.store, vs.run.now, backendOk)
          IN /\ Charge(backendOk)
             /\ vs' = [vs EXCEPT !.store = r.store,
                                 !.run = answered(vs.run, contact.jid,
                                                  [success |-> r.result,
                                                   called |-> r.called])]
    /\ UNCHANGED contacts
    /\ OnlyStore

\* the loop of vectorizeAllContacts is over: the documents are exhausted or
\* the limit is reached
AllEnd ==
    /\ Running("vectorizeAllContacts")
    /\ ~awaiting(vs.run)
    /\ vs.run.at > Len(vs.run.docs) \/ full(vs.run)
    /\ vs' = [vs EXCEPT !.run = Null, !.last = ended(vs.run)]
    /\ UNCHANGED <<contacts, faults>>
    /\ OnlyStore


\* the callers of vectorizeBatch, one run at a time; the backend fails at most
\* MaxFaults times
InitBatch ==
    /\ InitOthers({}, 0, {<<>>})
    /\ contacts \in BatchCollections
    /\ \E s \in BatchStores : vs = [NoVectors EXCEPT !.store = s]

NextBatch ==
    \/ BatchStart
    \/ BatchStep
    \/ BatchAnswer
    \/ BatchEnd

SpecBatch == InitBatch /\ [][NextBatch]_vars

\* the scheduler alone, with a backend that always answers: the schedule
\* starts a run every 60 minutes, and a run that has started goes on to its end
InitScheduled ==
    /\ InitOthers({}, MaxFaults, {<<>>})
    /\ contacts \in BatchCollections
    /\ \E s \in BatchStores : vs = [NoVectors EXCEPT !.store = s]

NextScheduled ==
    \/ ScheduledStart
    \/ ScheduledStep
    \/ ScheduledAnswer
    \/ ScheduledEnd

SpecScheduled ==
    InitScheduled /\ [][NextScheduled]_vars /\ WF_vars(NextScheduled)


-----------------------------------------------------------------------------
(* Properties of the Cloud Functions *)

\* the three batch functions, one invocation at a time and with a backend that
\* always answers, on a collection with a contact that is not completed and
\* one without data; vectorized-contacts is empty or holds the records of the
\* first three contacts
InitSerial ==
    /\ InitOthers({}, MaxFaults, {<<>>})
    /\ contacts = [id \in ContactNumbers |-> BatchDoc(id, id # 2, id # 1)]
    /\ \E k \in {0, 3} :
          vs = [NoVectors EXCEPT !.store =
                   [id \in 1..k |-> [jid |-> id, vectorizedAt |-> 0,
                                     vectorVersion |-> CurrentVersion]]]

NextSerial ==
    \/ ScheduledStart
    \/ ScheduledStep
    \/ ScheduledAnswer
    \/ ScheduledEnd
    \/ BatchStart
    \/ BatchStep
    \/ BatchAnswer
    \/ BatchEnd
    \/ AllStart
    \/ AllStep
    \/ AllAnswer
    \/ AllEnd

SpecSerial == InitSerial /\ [][NextSerial]_vars


\* a completed contact with enough data that has no record yet
pending(id) ==
    /\ statusOf(contacts[id]) = COMPLETED
    /\ sufficient(contacts[id])
    /\ id \notin DOMAIN vs.store

\* C29: with a backend that always answers, the repeated runs of
\* scheduledVectorization eventually vectorize every completed contact with
\* enough data that has no record yet, and no run vectorizes more than ten
\* contacts.
C29_EventuallyAllVectorized ==
    /\ \A id \in ContactNumbers : pending(id) ~> (id \in DOMAIN vs.store)
    /\ [](Applied("scheduledVectorization")
            => Cardinality(vs.last.embedded) <= ScheduledLimit)

\* the run before was a run of vectorizeBatch with the same limit in which
\* every contact it processed succeeded
rerun ==
    IF vs.last.previous = Null THEN FALSE
    ELSE /\ vs.last.previous.op = "vectorizeBatch"
         /\ vs.last.previous.limit = vs.last.limit
         /\ vs.last.previous.failed = 0

\* C30: a run of vectorizeBatch without forceRevectorize never calls the
\* backend for a contact that has a record and changes no record that exists;
\* when it follows a run in which every contact succeeded it calls the backend
\* for no contact at all. Only a run with forceRevectorize embeds a contact
\* that has a record again.
C30_BatchSkipsVectorized ==
    /\ [](Applied("vectorizeBatch")
            => /\ vs.last.reembedded # {} => vs.last.forceRevectorize
               /\ (~vs.last.forceRevectorize /\ rerun)
                    => (vs.last.embedded = {} /\ vs.last.processed = 0))
    /\ [][(Running("vectorizeBatch") /\ ~vs.run.forceRevectorize)
            => \A id \in DOMAIN vs.store :
                    id \in DOMAIN vs'.store /\ vs'.store[id] = vs.store[id]]_vars

C30_Witness ==
    /\ Applied("vectorizeBatch")
    /\ ~vs.last.forceRevectorize
    /\ rerun
    /\ vs.last.previous.successful > 0
    /\ vs.last.limit <= MaxBatchLimit
    /\ vs.last.embedded = {}


\* the candidates of a search for the top match that carry an embedding, and
\* among them those whose embedding has the length of the query vector
scanned(top) ==
    {top.candidates[k] : k \in {m \in 1..Len(top.candidates) :
                                    Has(top.candidates[m], "embedding")}}

sameLength(top) ==
    {c \in scanned(top) : Len(c.embedding) = Len(top.queryVector)}

\* C37: when one scanned candidate of findTopMatch or findTopMatchByJid has an
\* embedding of another length than the query vector, the search returns
\* null, whatever the other candidates score; findSimilarContacts on the same
\* vectors leaves out that candidate only and returns every other one that
\* is not below the threshold.
C37_MismatchFailsWholeSearch ==
    (Applied("findSimilarContacts") /\ Has(vs.last, "top"))
        => LET top == vs.last.top
           IN (scanned(top) # sameLength(top))
                => /\ top.result = Null
                   /\ {vs.last.results[k].contact.jid : k \in 1..Len(vs.last.results)}
                        = {c.jid : c \in {d \in sameLength(top) :
                              ~greater(top.minSimilarity,
                                       cosineSimilarity(top.queryVector, d.embedding))}}

C37_Witness ==
    /\ Applied("findSimilarContacts")
    /\ Has(vs.last, "top")
    /\ scanned(vs.last.top) # sameLength(vs.last.top)
    /\ vs.last.top.result = Null
    /\ \E k \in 1..Len(vs.last.results) :
          greater(vs.last.results[k].similarity, vs.last.minSimilarity)


-----------------------------------------------------------------------------
(* The lookup task under fair scheduling *)

\* a step of searchAndHandleLinkedIn, the task handleEmailResponse starts
LookupStep(i) ==
    \/ LGet(i)
    \/ LSearch(i)
    \/ LFoundSend(i)
    \/ LFoundSave(i)
    \/ LNotFoundSend(i)
    \/ LUpdGet(i)
    \/ LUpdSave(i)

\* the contact is asked for the email
WaitingDocs == {d \in SeedDocs : statusOf(d) = WAITING_EMAIL}

InitLookup == InitWith(Invocations, 0, WaitingDocs, {<<>>})

\* a message is handled when the work on the one before is over; the event
\* loop runs every continuation of a task that is ready, so a lookup task that
\* has been started is not left waiting forever
NextLookup == \E i \in Invocations :
    \/ ReceiveNext(i)
    \/ GetContact(i)
    \/ NewSave(i)
    \/ NewSend(i)
    \/ WsSend(i)
    \/ ErConfirm(i)
    \/ ErSave(i)
    \/ ErError(i)
    \/ CpSchedSend(i)
    \/ CpSchedSave(i)
    \/ CpGet(i)
    \/ CpCall(i)
    \/ CpDeclSend(i)
    \/ CpDeclSave(i)
    \/ CpClarify(i)
    \/ UpdGet(i)
    \/ UpdSave(i)
    \/ LookupStep(i)
    \/ HmSave(i)
    \/ HmRespond(i)

SpecLookup ==
    InitLookup /\ [][NextLookup]_vars /\ \A i \in Invocations : WF_vars(LookupStep(i))

\* C31: once the email of a contact has been stored with EMAIL_RECEIVED, the
\* contact eventually has the status WAITING_CALL_PERMISSION or COMPLETED,
\* whatever the store, the provider and the transport answer: it does not
\* stay in EMAIL_RECEIVED.
C31_EmailReceivedMovesOn ==
    (storedStatus = EMAIL_RECEIVED)
        ~> (storedStatus \in {WAITING_CALL_PERMISSION, COMPLETED})


-----------------------------------------------------------------------------
(* The classification of the call-permission replies *)

\* text contains one of phrases, whatever the case of its letters
containsPhrase(text, phrases) ==
    \E phrase \in phrases :
        \E k \in 1..Len(text) :
            /\ k + Len(phrase) - 1 <= Len(text)
            /\ \A m \in 1..Len(phrase) : LowerChar(text[k + m - 1]) = phrase[m]

\* invocation i has answered a reply to the call-permission question
Replied(i) ==
    /\ Finished(i)
    /\ seen[i] \in {WAITING_CALL_PERMISSION, LINKEDIN_FOUND}

\* C32: a call-permission reply that contains an affirmative phrase (in any
\* case) is answered as affirmative, also when it contains a negative phrase;
\* one that contains a negative phrase and no affirmative one is answered as
\* negative; any other reply gets the clarification and nothing else happens.
C32_AffirmativeCheckedFirst ==
    \A i \in DOMAIN pc :
        Replied(i) =>
            LET affirmative == containsPhrase(msg[i].text, positiveResponses)
                negative == containsPhrase(msg[i].text, negativeResponses)
            IN /\ Len(ev[i]) >= 1
               /\ ev[i][1].op = "send"
               /\ ev[i][1].data.message =
                     IF affirmative THEN "callScheduling"
                     ELSE IF negative THEN "callDeclined"
                     ELSE "clarification"
               /\ (~affirmative /\ ~negative) => Len(ev[i]) = 1

\* a reply with phrases of both sets was answered as affirmative
C32_Witness ==
    \E i \in DOMAIN pc :
        /\ Replied(i)
        /\ containsPhrase(msg[i].text, positiveResponses)
        /\ containsPhrase(msg[i].text, negativeResponses)
        /\ ev[i][1] = SendEvent("callScheduling", TRUE)
        /\ Len(ev[i]) > 1


-----------------------------------------------------------------------------
(* The email of a contact that is past the email question *)

\* invocation i is on the affirmative path and has read the contact again
\* without finding an email on it: the scheduler is not called
SchedulingSkipped(i) ==
    /\ seen[i] \in {WAITING_CALL_PERMISSION, LINKEDIN_FOUND}
    /\ pc[i] = "upd_get"
    /\ snap[i].target = [status |-> COMPLETED, handled |-> "true"]
    /\ \A k \in 1..Len(ev[i]) : ev[i][k].op # "schedule"

\* C38: a contact stored with the status EMAIL_RECEIVED,
\* WAITING_CALL_PERMISSION or CALL_SCHEDULED has an email that validateEmail
\* accepts; so the affirmative call-permission path, whenever the store gives
\* it the contact, finds an email for the scheduler.
C38_EmailStoredWithStatus ==
    /\ storedStatus \in {EMAIL_RECEIVED, WAITING_CALL_PERMISSION, CALL_SCHEDULED}
         => /\ Has(contacts[PrivateJid], "email")
            /\ validateEmail(contacts[PrivateJid].email)
    /\ \A i \in DOMAIN pc : SchedulingSkipped(i) => snap[i].contact = Null

\* the flow has stored an email, then WAITING_CALL_PERMISSION, then
\* CALL_SCHEDULED, and the affirmative path has the email for the scheduler
C38_Witness ==
    /\ storedStatus = CALL_SCHEDULED
    /\ contacts[PrivateJid].email # SeedEmail
    /\ \E i \in DOMAIN pc :
          /\ pc[i] = "cp_call"
          /\ snap[i].contact.email = contacts[PrivateJid].email


-----------------------------------------------------------------------------
(* The order of the statuses when the steps do not overlap *)

\* the place of the stored status in the forward order; a record without a
\* status is read as NEW, and no record comes before everything
storedRank ==
    IF storedStatus = "norecord" THEN -1
    ELSE IF storedStatus = "nostatus" THEN Rank[NEW_CONTACT]
    ELSE Rank[storedStatus]

-----------------------------------------------------------------------------
(* The merge of the histories *)

\* jobHistory / educationHistory as enrichLinkedInData maps them from the
\* provider's response
freshEntries(linkedInResponse, shape) ==
    IF shape = JobShape
    THEN [k \in 1..Len(linkedInResponse.experiences) |->
             jobOf(linkedInResponse.experiences[k])]
    ELSE [k \in 1..Len(linkedInResponse.education) |->
             educationOf(linkedInResponse.education[k])]

\* existingJobs / existingEducation: contactData.jobHistory || []
existingEntries(contactData, shape) ==
    IF Has(contactData, shape.history) THEN contactData[shape.history] ELSE <<>>

\* the positions of a history that hold an entry with this id
withId(history, id) == {j \in 1..Len(history) : Field(history[j], "id") = id}

\* entry is the merge of found and fresh: the id and the non-empty optional
\* fields of found, every other field of fresh (the logo aside, which the
\* refresh of the logos may write)
isMergeOf(entry, found, fresh, shape) ==
    /\ Field(entry, "id") = found.id
    /\ \A f \in shape.optional :
           Field(entry, f) = IF Field(found, f) # "" THEN found[f] ELSE Field(fresh, f)
    /\ \A f \in DOMAIN fresh \ ({"id", shape.logo} \cup shape.optional) :
           Field(entry, f) = fresh[f]

\* C33: after a live enrichment, for every fresh entry that matches an
\* existing one the merged history has exactly one entry for the pair, with
\* the id and the non-empty optional fields of the existing entry and the core
\* fields of the fresh one, and does not hold the existing entry beside it;
\* a fresh entry that matches nothing is in the merged history as it came.
C33_MatchedEntryMergedOnce ==
    LiveEnrichment =>
        \A shape \in {JobShape, EducationShape} :
            LET existing == existingEntries(enr.input, shape)
                fresh == freshEntries(enr.result.linkedinEnrichmentResponse, shape)
                merged == enr.result[shape.history]
            IN \A k \in 1..Len(fresh) :
                   LET m == matchesOf(existing, fresh[k], shape)
                   IN IF m = {} THEN fresh[k] \in entriesOf(merged)
                      ELSE \E i \in m :
                               /\ Cardinality(withId(merged, existing[i].id)) = 1
                               /\ \A j \in withId(merged, existing[i].id) :
                                      isMergeOf(merged[j], existing[i], fresh[k], shape)


\* the existing entries that have the URL of the fresh entry
urlMatchesOf(existing, fresh, shape) ==
    {k \in 1..Len(existing) :
        ~isManual(existing[k], shape) /\ existing[k][shape.url] = fresh[shape.url]}

\* C34: after a live enrichment a fresh entry whose URL an existing entry has
\* is merged with an entry of that URL, also when another existing entry,
\* earlier in the list, has its company (or institution), start date and
\* title (or field of study).
C34_UrlMatchFirst ==
    LiveEnrichment =>
        \A shape \in {JobShape, EducationShape} :
            LET existing == existingEntries(enr.input, shape)
                fresh == freshEntries(enr.result.linkedinEnrichmentResponse, shape)
                merged == enr.result[shape.history]
            IN \A k \in 1..Len(fresh) :
                   urlMatchesOf(existing, fresh[k], shape) # {} =>
                       \E i \in urlMatchesOf(existing, fresh[k], shape), j \in 1..Len(merged) :
                           isMergeOf(merged[j], existing[i], fresh[k], shape)


\* the positions of the existing entries that have a URL and that no fresh
\* entry matches, by URL or by the compound key
staleEntries(existing, fresh, shape) ==
    {i \in 1..Len(existing) :
        /\ ~isManual(existing[i], shape)
        /\ \A k \in 1..Len(fresh) : i \notin matchesOf(existing, fresh[k], shape)}

\* C40: after a live enrichment an existing entry that has a URL and matches
\* no fresh entry is not in the merged history, returned or stored, and no
\* entry of the merged history has its URL: the merged history has the
\* entries without a URL and one entry for each fresh entry, and nothing else.
C40_UnmatchedUrlEntryDropped ==
    LiveEnrichment =>
        \A shape \in {JobShape, EducationShape} :
            LET existing == existingEntries(enr.input, shape)
                fresh == freshEntries(enr.result.linkedinEnrichmentResponse, shape)
                merged == enr.result[shape.history]
                stored == contacts[enr.input.id][shape.history]
            IN /\ \A i \in staleEntries(existing, fresh, shape) :
                      /\ existing[i] \notin entriesOf(merged) \cup entriesOf(stored)
                      /\ \A e \in entriesOf(merged) \cup entriesOf(stored) :
                             Field(e, shape.url) # existing[i][shape.url]
               /\ Len(merged) =
                      Cardinality({i \in 1..Len(existing) : isManual(existing[i], shape)})
                      + Len(fresh)
               /\ stored = merged

\* the contact had an entry of Globex, with its URL, and a manual one; the
\* profile has Acme only: the merged history has the manual entry and Acme's,
\* and Globex is gone
C40_Witness ==
    /\ LiveEnrichment
    /\ existingEntries(enr.input, JobShape) = <<OtherEnrichedJob, ManualJobNoOrg>>
    /\ Len(enr.result.linkedinEnrichmentResponse.experiences) = 1
    /\ Len(enr.result.jobHistory) = 2
    /\ enr.result.jobHistory[1] = ManualJobNoOrg
    /\ enr.result.jobHistory[2].companyName = "Acme"
    /\ OtherEnrichedJob \notin entriesOf(contacts[enr.input.id].jobHistory)


-----------------------------------------------------------------------------
(* The log of the enrichments *)

\* a run of enrichLinkedInData that fetched a profile ends with this step
EndsFetch == enr.pc # "done" /\ enr'.pc = "done" /\ enr'.fetches = 1

\* the documents this step appends to linkedinEnrichmentResponses
appended == SubSeq(enrichmentLog', Len(enrichmentLog) + 1, Len(enrichmentLog'))

\* the two documents of an enrichment: the response alone, then the response
\* with the enriched contact
isFirstRecord(record, response) ==
    /\ record.linkedInResponse = response
    /\ record.enrichedData = Null
    /\ record.created.at = enr'.now

isSecondRecord(record, response) ==
    /\ record.linkedInResponse = response
    /\ record.enrichedData # Null
    /\ Has(record.enrichedData, "linkedinEnrichmentResponse")
    /\ record.enrichedData.linkedinEnrichmentResponse = response
    /\ record.created.at = enr'.now

\* C35: no step changes or removes a document of the log.  A run that fetched
\* a profile, merged it and wrote the contact appends two documents when both
\* writes worked: the first with the response and no snapshot, the second with
\* the enriched contact; a write of the log that fails costs its document only,
\* the run still merges, writes the contact and returns the enriched contact.
\* A run whose update of the contact fails after the merge has appended both
\* documents already.
C35_TwoRecordsAppendOnly ==
    [][/\ Len(enrichmentLog') >= Len(enrichmentLog)
       /\ SubSeq(enrichmentLog', 1, Len(enrichmentLog)) = enrichmentLog
       /\ (EndsFetch /\ enr'.enriched) =>
              LET response == enr'.result.linkedinEnrichmentResponse
              IN /\ contacts'[enr'.input.id].linkedinEnrichmentResponse = response
                 /\ IF faults' = faults
                    THEN /\ Len(appended) = 2
                         /\ isFirstRecord(appended[1], response)
                         /\ isSecondRecord(appended[2], response)
                         /\ appended[2].enrichedData = Stored(enr'.result)
                    ELSE /\ Len(appended) = 1
                         /\ \/ isFirstRecord(appended[1], response)
                            \/ isSecondRecord(appended[1], response)
       /\ (EndsFetch /\ ~enr'.enriched /\ Len(appended) = 2) =>
              /\ appended[1].enrichedData = Null
              /\ isSecondRecord(appended[2], appended[1].linkedInResponse)
              /\ contacts' = contacts]_vars

\* a live enrichment has just ended with no failure: the last two documents of
\* the log are its own, the first without a snapshot, the second with the
\* contact it returned
C35_Witness ==
    /\ LiveEnrichment
    /\ faults = 0
    /\ Len(enrichmentLog) >= 2
    /\ enrichmentLog[Len(enrichmentLog) - 1].created.at = enr.now
    /\ enrichmentLog[Len(enrichmentLog) - 1].enrichedData = Null
    /\ enrichmentLog[Len(enrichmentLog)].created.at = enr.now
    /\ enrichmentLog[Len(enrichmentLog)].enrichedData = Stored(enr.result)
    /\ contacts[enr.input.id].jobHistory = enr.result.jobHistory


-----------------------------------------------------------------------------
(* The batch functions, request by request *)

\* the batch functions
BatchOps == {"vectorizeAllContacts", "vectorizeBatch", "scheduledVectorization"}

\* C36: in an invocation of vectorizeAllContacts, vectorizeBatch or
\* scheduledVectorization at most one request to the embedding backend is in
\* flight, and it is for a contact the limit still allows; the number of
\* contacts processed and of contacts embedded never exceeds the limit, while
\* the invocation runs and when it is over.
C36_OneRequestWithinLimit ==
    /\ vs.run # Null =>
           /\ vs.run.op \in BatchOps
           /\ vs.run.inflight \in {0, 1}
           /\ vs.run.processed + vs.run.inflight <= vs.run.limit
           /\ Cardinality(vs.run.embedded) <= vs.run.processed
           /\ vs.run.inflight = 1 => current(vs.run) \notin vs.run.embedded
    /\ vs.last # Null =>
           /\ vs.last.op \in BatchOps
           /\ vs.last.processed <= vs.last.limit
           /\ Cardinality(vs.last.embedded) <= vs.last.processed

\* vectorizeAllContacts is waiting for the embedding of the last contact its
\* limit allows; it has read more contacts than that
C36_Witness ==
    /\ Running("vectorizeAllContacts")
    /\ vs.run.inflight = 1
    /\ vs.run.processed = vs.run.limit - 1
    /\ vs.run.processed > 0
    /\ vs.run.at < Len(vs.run.docs)

====
